---- MODULE Spec2Model ----
(***************************************************************************)
(* Model of the crosscoap CoAP-to-HTTP proxy: the translators of           *)
(* translate.go and the per-datagram handler proxyHandler.ServeCOAP of     *)
(* crosscoap.go (lines 1-293, the version that imports                     *)
(* github.com/energomonitor/go-coap), with its two uses of the shared      *)
(* HTTPCache (request assembly for Block1, response sessions for Block2).  *)
(*                                                                         *)
(* Byte strings and text are sequences.  A response body is a sequence of  *)
(* pairwise distinct bytes, so that a slice identifies its offsets.        *)
(***************************************************************************)
EXTENDS Integers, Sequences, FiniteSets, TLC

VARIABLES
    backendURL,   \* Proxy.BackendURL
    cacheNil,     \* Proxy.HTTPCache == nil
    cache,        \* contents of Proxy.HTTPCache: key -> raw bytes
    content,      \* the body the backend currently serves
    h,            \* one record per running ServeCOAP call
    dl,           \* a client downloading a body block by block
    ul,           \* a client uploading bodies fragment by fragment
    crashed,      \* the process died of an unrecovered panic
    tin,          \* input of the translator under test (SpecTranslate)
    tout          \* its output

vars == <<backendURL, cacheNil, cache, content, h, dl, ul, crashed, tin, tout>>

----------------------------------------------------------------------------
(* Bounds of the model *)

\* fragments of one upload of the upload client
MaxFrags == 2

\* largest block number of a Block2 option: 20 bits
MaxWireNum == 1048575

\* largest size exponent of a Block2 option: 3 bits
MaxWireSzx == 7

\* uploads the upload client makes, one after the other
MaxUploads == 3

\* largest Block1/Block2 block number a request carries
MaxNum == 3
\* largest Block2 size exponent a request carries
MaxSzx == 1
\* longest small body the backend serves
MaxBody == 3
\* longest token of a request
MaxToken == 5
\* longest request body a Block1 upload is let to accumulate
MaxUpload == 3
\* how many body lengths around the packet limit the translator is tried on
BodySpread == 12
\* most URI-Query options a request carries
MaxItems == 2

(* Program constants *)

maxCOAPPacketLen == 1500

\* the body of TestTranslateCOAPResponseTrunactesBigHTTPBody: 1000 times "ABCD"
TestBodyLen == 4000

----------------------------------------------------------------------------
(* Small helpers *)

Min(a, b) == IF a < b THEN a ELSE b

Pow2(n) == 2 ^ n

\* the byte string b_1 .. b_n with b_i = i
Bytes(n) == [i \in 1..n |-> i]

\* Go's s[from:to], offsets counted from 0
Slice(s, from, to) == SubSeq(s, from + 1, to)

----------------------------------------------------------------------------
(* CoAP messages (github.com/energomonitor/go-coap Message) *)

NoBlock == [has |-> FALSE, num |-> 0, szx |-> 0, more |-> FALSE]

Block(num, szx, more) == [has |-> TRUE, num |-> num, szx |-> szx, more |-> more]

\* Option(coap.ContentFormat) == nil
NoCF == -1

\* Option(coap.URIHost) == nil
NoHost == <<>>

IsConfirmable(m) == m.type = "Confirmable"

IsBlock1(m) == m.b1.has

IsBlock2(m) == m.b2.has

(* translate.go:27 *)
coapContentFormatContentType ==
    [id \in {0, 40, 41, 42, 47, 50, 11050} |->
        CASE id = 0     -> [Type |-> <<"text/plain", "charset=utf-8">>, Encoding |-> ""]
          [] id = 40    -> [Type |-> <<"application/link-format">>, Encoding |-> ""]
          [] id = 41    -> [Type |-> <<"application/xml">>, Encoding |-> ""]
          [] id = 42    -> [Type |-> <<"application/octet-stream">>, Encoding |-> ""]
          [] id = 47    -> [Type |-> <<"application/exi">>, Encoding |-> ""]
          [] id = 50    -> [Type |-> <<"application/json">>, Encoding |-> ""]
          [] id = 11050 -> [Type |-> <<"application/json">>, Encoding |-> "deflate"]]

(* translate.go:37 *)
httpStatusCOAPCode ==
    [s \in {200, 201, 204, 304, 400, 401, 403, 404, 405, 406, 412, 413, 415,
            500, 501, 502, 503, 504} |->
        CASE s = 200 -> "Content"
          [] s = 201 -> "Created"
          [] s = 204 -> "Content"
          [] s = 304 -> "Valid"
          [] s = 400 -> "BadRequest"
          [] s = 401 -> "Unauthorized"
          [] s = 403 -> "Forbidden"
          [] s = 404 -> "NotFound"
          [] s = 405 -> "MethodNotAllowed"
          [] s = 406 -> "NotAcceptable"
          [] s = 412 -> "PreconditionFailed"
          [] s = 413 -> "RequestEntityTooLarge"
          [] s = 415 -> "UnsupportedMediaType"
          [] s = 500 -> "InternalServerError"
          [] s = 501 -> "NotImplemented"
          [] s = 502 -> "BadGateway"
          [] s = 503 -> "ServiceUnavailable"
          [] s = 504 -> "GatewayTimeout"]

\* translateStatusCode that answers 5.00 for a status the table lacks
translateStatusCode_Unmapped500(httpStatusCode) ==
    IF httpStatusCode \in DOMAIN httpStatusCOAPCode
    THEN httpStatusCOAPCode[httpStatusCode]
    ELSE "InternalServerError"

translateStatusCode(httpStatusCode) ==
    IF httpStatusCode \in DOMAIN httpStatusCOAPCode
    THEN httpStatusCOAPCode[httpStatusCode]
    ELSE "Content"

\* a header value is the sequence of its ";"-separated parts; "" is <<"">>
trimCharset(val) == val[1]

\* translateContentTypeWithEncoding that does not compare the encodings
translateContentTypeWithEncoding_AnyEncoding(contentType, contentEncoding) ==
    LET ct0 == trimCharset(contentType)
        hits == {id \in DOMAIN coapContentFormatContentType :
                    trimCharset(coapContentFormatContentType[id].Type) = ct0}
    IN  IF hits = {} THEN [id |-> 0, found |-> FALSE]
        ELSE [id |-> CHOOSE id \in hits : TRUE, found |-> TRUE]

\* the IDs the loop over the table can return; (0, false) when there is none
translateContentTypeWithEncoding(contentType, contentEncoding) ==
    LET ct0 == trimCharset(contentType)
        hits == {id \in DOMAIN coapContentFormatContentType :
                    /\ trimCharset(coapContentFormatContentType[id].Type) = ct0
                    /\ coapContentFormatContentType[id].Encoding = contentEncoding}
    IN  IF hits = {} THEN [id |-> 0, found |-> FALSE]
        ELSE [id |-> CHOOSE id \in hits : TRUE, found |-> TRUE]

\* getContentFormatFromCoapMessage that takes an ID the table lacks for text
getContentFormatFromCoapMessage_DefaultText(msg) ==
    IF msg.cf = NoCF
    THEN [ct |-> [Type |-> <<"">>, Encoding |-> ""], found |-> FALSE]
    ELSE IF msg.cf \in DOMAIN coapContentFormatContentType
    THEN [ct |-> coapContentFormatContentType[msg.cf], found |-> TRUE]
    ELSE [ct |-> coapContentFormatContentType[0], found |-> TRUE]

getContentFormatFromCoapMessage(msg) ==
    IF msg.cf # NoCF /\ msg.cf \in DOMAIN coapContentFormatContentType
    THEN [ct |-> coapContentFormatContentType[msg.cf], found |-> TRUE]
    ELSE [ct |-> [Type |-> <<"">>, Encoding |-> ""], found |-> FALSE]

----------------------------------------------------------------------------
(* Request translation (translate.go:92-140).  Text is a sequence of       *)
(* one-character strings.                                                  *)

HexDigits == {"0", "1", "2", "3", "4", "5", "6", "7", "8", "9",
              "a", "b", "c", "d", "e", "f", "A", "B", "C", "D", "E", "F"}

\* characters url.QueryEscape leaves alone
Unreserved == {"a", "b", "c", "d", "e", "f", "k", "t", "v", "0", "1", "-", "_", ".", "~"}

\* url.QueryEscape of one character
EscapeChar(c) ==
    CASE c \in Unreserved -> <<c>>
      [] c = " " -> <<"+">>
      [] c = "=" -> <<"%", "3", "D">>
      [] c = "&" -> <<"%", "2", "6">>
      [] c = "%" -> <<"%", "2", "5">>
      [] c = "/" -> <<"%", "2", "F">>
      [] c = "?" -> <<"%", "3", "F">>
      [] OTHER -> <<"%", "X", "X">>

RECURSIVE QueryEscape(_)
QueryEscape(s) ==
    IF s = <<>> THEN <<>> ELSE EscapeChar(Head(s)) \o QueryEscape(Tail(s))

\* index of the first "=" of s, 0 when there is none
FirstEq(s) ==
    IF \E i \in 1..Len(s) : s[i] = "="
    THEN CHOOSE i \in 1..Len(s) : s[i] = "=" /\ \A j \in 1..(i - 1) : s[j] # "="
    ELSE 0

\* escapeKeyValue that escapes the item as a whole
escapeKeyValue_Whole(s) == QueryEscape(s)

escapeKeyValue(s) ==
    LET i == FirstEq(s)
    IN  IF i = 0 THEN QueryEscape(s)
        ELSE QueryEscape(SubSeq(s, 1, i - 1)) \o <<"=">> \o QueryEscape(SubSeq(s, i + 1, Len(s)))

RECURSIVE JoinAmp(_)
JoinAmp(parts) ==
    IF Len(parts) = 1 THEN parts[1]
    ELSE parts[1] \o <<"&">> \o JoinAmp(Tail(parts))

\* every URI-Query option of the model is a string
queryString(coapMsg) ==
    LET parts == [i \in 1..Len(coapMsg.query) |-> escapeKeyValue(coapMsg.query[i])]
    IN  IF Len(parts) = 0 THEN <<>> ELSE <<"?">> \o JoinAmp(parts)

\* coapMsg.PathString(): the URI-Path options joined with "/"
RECURSIVE PathString(_)
PathString(path) ==
    IF path = <<>> THEN <<>>
    ELSE IF Len(path) = 1 THEN path[1]
    ELSE path[1] \o <<"/">> \o PathString(Tail(path))

\* addFinalSlash that appends a slash to every prefix
addFinalSlash_Always(s) == s \o <<"/">>

addFinalSlash(s) ==
    IF Len(s) > 0 /\ s[Len(s)] = "/" THEN s ELSE s \o <<"/">>

\* url.Parse inside http.NewRequest: a "%" must start a two-digit hex escape
URLParses(u) ==
    \A i \in 1..Len(u) :
        u[i] = "%" => /\ i + 2 <= Len(u)
                      /\ u[i + 1] \in HexDigits
                      /\ u[i + 2] \in HexDigits

NilRequest ==
    [ok |-> FALSE, Method |-> "", URL |-> <<>>, Host |-> NoHost,
     ContentType |-> <<"">>, ContentEncoding |-> "", UserAgent |-> "",
     ContentLength |-> 0, Body |-> <<>>]

translateCOAPRequestToHTTPRequest(coapMsg, backendURLPrefix) ==
    LET method == coapMsg.code
        url == addFinalSlash(backendURLPrefix) \o PathString(coapMsg.path)
                   \o queryString(coapMsg)
        contentFormat == getContentFormatFromCoapMessage(coapMsg)
    IN  IF ~URLParses(url) THEN NilRequest
        ELSE [ok |-> TRUE,
              Method |-> method,
              URL |-> url,
              Host |-> coapMsg.host,
              ContentType |-> IF contentFormat.found THEN contentFormat.ct.Type ELSE <<"">>,
              ContentEncoding |-> IF contentFormat.found THEN contentFormat.ct.Encoding ELSE "",
              UserAgent |-> "",
              ContentLength |-> Len(coapMsg.payload),
              Body |-> coapMsg.payload]

(* crosscoap.go:92, set on the request at crosscoap.go:199 *)
userAgent == "crosscoap/1.0"

----------------------------------------------------------------------------
(* Response translation (translate.go:142-223) *)

\* bytes of an unsigned option value in the CoAP wire format
IntLen(v) ==
    CASE v = 0 -> 0
      [] v < 256 -> 1
      [] v < 65536 -> 2
      [] v < 16777216 -> 3
      [] OTHER -> 4

\* extra bytes of an option delta or length nibble
ExtLen(x) == IF x < 13 THEN 0 ELSE IF x < 269 THEN 1 ELSE 2

OptLen(delta, vlen) == 1 + ExtLen(delta) + ExtLen(vlen) + vlen

BlockValue(b) == b.num * 16 + (IF b.more THEN 8 ELSE 0) + b.szx

\* len(coapResp.MarshalBinary()) of a message without payload: the 4-byte
\* header, the token, then the options in the order of their numbers
\* (Content-Format 12, Block2 23, Block1 27), each with its delta
MarshalLen(msg) ==
    LET cfLen == IF msg.cf = NoCF THEN 0 ELSE OptLen(12, IntLen(msg.cf))
        last1 == IF msg.cf = NoCF THEN 0 ELSE 12
        b2Len == IF msg.b2.has THEN OptLen(23 - last1, IntLen(BlockValue(msg.b2))) ELSE 0
        last2 == IF msg.b2.has THEN 23 ELSE last1
        b1Len == IF msg.b1.has THEN OptLen(27 - last2, IntLen(BlockValue(msg.b1))) ELSE 0
    IN  4 + Len(msg.token) + cfLen + b2Len + b1Len

generateCOAPResponseMessage(coapRequest, statusCode) ==
    [type |-> "Acknowledgement", code |-> statusCode,
     mid |-> coapRequest.mid, token |-> coapRequest.token,
     cf |-> NoCF, b1 |-> NoBlock, b2 |-> NoBlock, payload |-> <<>>]

NilResponse == [StatusCode |-> 0, ContentType |-> <<"">>, ContentEncoding |-> "", Body |-> <<>>]

\* size := uint32(math.Pow(2, float64(szx)))
BlockSize(szx) == Pow2(szx)

\* CarveBlock2 with the offset reset already at the end of the body
CarveBlock2_ResetAtEnd(httpBody, num, szx) ==
    LET size == Pow2(szx)
        readFrom0 == num * size
        readTo0 == readFrom0 + size
        readFrom == IF readFrom0 >= Len(httpBody) THEN 0 ELSE readFrom0
        readTo == IF readTo0 > Len(httpBody) THEN Len(httpBody) ELSE readTo0
    IN  [readFrom |-> readFrom, readTo |-> readTo, more |-> ~(readTo0 > Len(httpBody)),
         body |-> Slice(httpBody, readFrom, readTo)]

\* CarveBlock2 that clears more also for a block that ends with the body
CarveBlock2_LastAtEnd(httpBody, num, szx) ==
    LET size == Pow2(szx)
        readFrom0 == num * size
        readTo0 == readFrom0 + size
        readFrom == IF readFrom0 > Len(httpBody) THEN 0 ELSE readFrom0
        readTo == IF readTo0 > Len(httpBody) THEN Len(httpBody) ELSE readTo0
    IN  [readFrom |-> readFrom, readTo |-> readTo, more |-> ~(readTo0 >= Len(httpBody)),
         body |-> Slice(httpBody, readFrom, readTo)]

\* CarveBlock2 that answers a block past the end of the body with no bytes
CarveBlock2_EmptyPastEnd(httpBody, num, szx) ==
    LET size == Pow2(szx)
        readFrom0 == num * size
        readTo0 == readFrom0 + size
        readFrom == IF readFrom0 > Len(httpBody) THEN Len(httpBody) ELSE readFrom0
        readTo == IF readTo0 > Len(httpBody) THEN Len(httpBody) ELSE readTo0
    IN  [readFrom |-> readFrom, readTo |-> readTo, more |-> ~(readTo0 > Len(httpBody)),
         body |-> Slice(httpBody, readFrom, readTo)]

\* CarveBlock2 that keeps an offset past the end of the body
CarveBlock2_NoReset(httpBody, num, szx) ==
    LET size == Pow2(szx)
        readFrom0 == num * size
        readTo0 == readFrom0 + size
        readTo == IF readTo0 > Len(httpBody) THEN Len(httpBody) ELSE readTo0
    IN  [readFrom |-> readFrom0, readTo |-> readTo, more |-> ~(readTo0 > Len(httpBody)),
         body |-> Slice(httpBody, readFrom0, readTo)]

\* the slice of httpBody a Block2 request (num, szx) is answered with, and the
\* more flag of the response (translate.go:165-185)
CarveBlock2(httpBody, num, szx) ==
    LET size == BlockSize(szx)
        readFrom0 == num * size
        readTo0 == readFrom0 + size
        readFrom == IF readFrom0 > Len(httpBody) THEN 0 ELSE readFrom0
        readTo == IF readTo0 > Len(httpBody) THEN Len(httpBody) ELSE readTo0
        more == ~(readTo0 > Len(httpBody))
    IN  [readFrom |-> readFrom, readTo |-> readTo, more |-> more,
         body |-> Slice(httpBody, readFrom, readTo)]

\* BytesLeft without the byte of the payload marker
BytesLeft_NoMarker(packetHeadersLen) == maxCOAPPacketLen - packetHeadersLen

\* bytesLeft of translate.go:205-206
BytesLeft(packetHeadersLen) == maxCOAPPacketLen - (packetHeadersLen + 1)

\* FitPayload that takes a body of exactly bytesLeft bytes for too long
FitPayload_AtLimit(httpBody, bytesLeft) ==
    IF Len(httpBody) >= bytesLeft
    THEN [payload |-> Slice(httpBody, 0, bytesLeft), IsTruncated |-> TRUE]
    ELSE [payload |-> httpBody, IsTruncated |-> FALSE]

\* the payload and the truncated flag of translate.go:207-212
FitPayload(httpBody, bytesLeft) ==
    IF Len(httpBody) > bytesLeft
    THEN [payload |-> Slice(httpBody, 0, bytesLeft), IsTruncated |-> TRUE]
    ELSE [payload |-> httpBody, IsTruncated |-> FALSE]

translateHTTPResponseToCOAPResponse(httpResp, httpBody, httpError, coapRequest) ==
    LET skel == [type |-> "Acknowledgement", code |-> "",
                 mid |-> coapRequest.mid, token |-> coapRequest.token,
                 cf |-> NoCF, b1 |-> NoBlock, b2 |-> NoBlock, payload |-> <<>>]
        more1 == IsBlock1(coapRequest) /\ coapRequest.b1.more
        withB1 == IF IsBlock1(coapRequest)
                  THEN [skel EXCEPT !.b1 = Block(coapRequest.b1.num, coapRequest.b1.szx,
                                                 coapRequest.b1.more)]
                  ELSE skel
        carve == CarveBlock2(httpBody, coapRequest.b2.num, coapRequest.b2.szx)
        body2 == IF IsBlock2(coapRequest) THEN carve.body ELSE httpBody
        withB2 == IF IsBlock2(coapRequest)
                  THEN [withB1 EXCEPT !.b2 = Block(coapRequest.b2.num, coapRequest.b2.szx,
                                                   carve.more)]
                  ELSE withB1
        contentFormat == translateContentTypeWithEncoding(httpResp.ContentType,
                                                          httpResp.ContentEncoding)
        coded == [withB2 EXCEPT !.code = translateStatusCode(httpResp.StatusCode),
                                !.cf = IF contentFormat.found THEN contentFormat.id ELSE NoCF]
        fit == FitPayload(body2, BytesLeft(MarshalLen(coded)))
    IN  IF httpError
        THEN [msg |-> [skel EXCEPT !.code = "ServiceUnavailable"], IsTruncated |-> FALSE]
        ELSE IF more1
        THEN [msg |-> [withB1 EXCEPT !.code = "Continue"], IsTruncated |-> FALSE]
        ELSE [msg |-> [coded EXCEPT !.payload = fit.payload], IsTruncated |-> fit.IsTruncated]

----------------------------------------------------------------------------
(* The wire forms kept in the cache.  A dumped request is its head fields  *)
(* followed by the body bytes, a dumped response likewise; reading one     *)
(* back takes the body by its Content-Length.                              *)

\* url.Parse: the index of the ":" of the "://" that ends the scheme, 0 when
\* the text has none
SchemeEnd(u) ==
    LET marks == {i \in 1..(Len(u) - 2) : u[i] = ":" /\ u[i + 1] = "/" /\ u[i + 2] = "/"}
    IN  IF marks = {} THEN 0 ELSE CHOOSE i \in marks : \A j \in marks : i <= j

\* url.Parse: the index of the last character of the authority, which the
\* first "/", "?" or "#" after the "://" ends
AuthorityEnd(u) ==
    LET from == SchemeEnd(u) + 3
        stops == {i \in from..Len(u) : u[i] \in {"/", "?", "#"}}
    IN  IF SchemeEnd(u) = 0 THEN 0
        ELSE IF stops = {} THEN Len(u)
        ELSE (CHOOSE i \in stops : \A j \in stops : i <= j) - 1

\* scheme, host and port of a URL: its text up to the end of the authority
Origin(u) == SubSeq(u, 1, AuthorityEnd(u))

\* req.URL.Host: the authority of a URL
URLHost(u) == IF SchemeEnd(u) = 0 THEN <<>> ELSE SubSeq(u, SchemeEnd(u) + 3, AuthorityEnd(u))

\* req.URL.RequestURI(): path and query, what the request line carries
RequestURI(u) == SubSeq(u, AuthorityEnd(u) + 1, Len(u))

\* httputil.DumpRequestOut(req, true), crosscoap.go:132: the request line has
\* the request URI only, the Host header is req.Host or else the URL's host
DumpRequestOut(req) ==
    <<req.Method, RequestURI(req.URL),
      IF req.Host = NoHost THEN URLHost(req.URL) ELSE req.Host,
      req.ContentType, req.ContentEncoding,
      req.UserAgent, req.ContentLength>> \o req.Body

\* http.ReadRequest, crosscoap.go:102: fails on bytes that start like a response
ReadRequest(raw) ==
    IF raw[1] = "HTTP/1.1" THEN NilRequest
    ELSE [ok |-> TRUE, Method |-> raw[1], URL |-> raw[2], Host |-> raw[3],
          ContentType |-> raw[4], ContentEncoding |-> raw[5], UserAgent |-> raw[6],
          ContentLength |-> raw[7], Body |-> SubSeq(raw, 8, 7 + raw[7])]

\* httputil.DumpResponse(httpResp, true), crosscoap.go:162
DumpResponse(resp) ==
    <<"HTTP/1.1", resp.StatusCode, resp.ContentType, resp.ContentEncoding,
      Len(resp.Body)>> \o resp.Body

\* http.ReadResponse, crosscoap.go:145: fails on bytes that are no response
ReadResponse(raw) ==
    IF raw[1] # "HTTP/1.1" THEN [ok |-> FALSE, resp |-> NilResponse]
    ELSE [ok |-> TRUE,
          resp |-> [StatusCode |-> raw[2], ContentType |-> raw[3],
                    ContentEncoding |-> raw[4], Body |-> SubSeq(raw, 6, 5 + raw[5])]]

\* fmt.Sprintf("REQ %s %s", req.Method, req.URL.String()), crosscoap.go:96
ReqKey(req) == <<"REQ", " ", req.Method, " ", req.URL>>

\* ResKey with the prefix of the request-assembly keys
ResKey_RequestPrefix(req) == <<"REQ", " ", req.Method, " ", req.URL>>

\* fmt.Sprintf("RES %s %s", req.Method, req.URL.String()), crosscoap.go:141
ResKey(req) == <<"RES", " ", req.Method, " ", req.URL>>

\* HTTPCache.Set(key, raw)
CacheSet(c, key, raw) ==
    [k \in (DOMAIN c) \cup {key} |-> IF k = key THEN raw ELSE c[k]]

\* the cache without the entry of key (the entry aged out or was evicted)
CacheDrop(c, key) == [k \in (DOMAIN c) \ {key} |-> c[k]]

EmptyCache == [k \in {} |-> <<>>]

----------------------------------------------------------------------------
(* The requests and responses the environment produces *)

Tokens == {Bytes(n) : n \in 0..MaxToken}

\* the content types the backend answers with
ContentTypes ==
    {[StatusCode |-> 200, ContentType |-> <<"text/plain">>, ContentEncoding |-> ""],
     [StatusCode |-> 200, ContentType |-> <<"application/json", "charset=utf-8">>,
      ContentEncoding |-> ""],
     [StatusCode |-> 404, ContentType |-> <<"application/json">>, ContentEncoding |-> "deflate"],
     [StatusCode |-> 299, ContentType |-> <<"">>, ContentEncoding |-> ""]}

BackendURLs == {<<"b">>}

\* the URI-Path options of a request: a sequence of segments
Paths == {<< <<"t">> >>, << <<"%">> >>}

Block1s == {NoBlock, Block(0, 0, TRUE), Block(1, 0, FALSE)}

\* a block number past the end of every body the backend serves
FarNum == maxCOAPPacketLen + MaxBody + 1

Block2s ==
    {NoBlock} \cup {Block(n, s, FALSE) : n \in (0..MaxNum) \cup {FarNum}, s \in 0..MaxSzx}

Payloads == {<<>>, <<"p">>}

\* the datagrams: a Block1 fragment carries a payload, other requests none
Msgs ==
    {m \in [type : {"Confirmable", "NonConfirmable"}, code : {"GET"}, mid : {7},
            token : {Bytes(MaxToken)}, path : Paths, query : {<<>>}, host : {NoHost},
            cf : {NoCF}, b1 : Block1s, b2 : Block2s, payload : Payloads] :
        m.b1.has <=> m.payload # <<>>}

\* the bodies the backend serves: the small ones and one beyond the packet limit
Bodies == {Bytes(n) : n \in 0..MaxBody} \cup {Bytes(maxCOAPPacketLen + MaxBody)}

\* the status lines and content types the backend answers with
Answers ==
    {[StatusCode |-> 404, ContentType |-> <<"application/json">>, ContentEncoding |-> "deflate"],
     [StatusCode |-> 299, ContentType |-> <<"">>, ContentEncoding |-> ""]}

\* ServeCOAP has not returned
NilMsg ==
    [type |-> "nil", code |-> "", mid |-> 0, token |-> <<>>,
     cf |-> NoCF, b1 |-> NoBlock, b2 |-> NoBlock, payload |-> <<>>]

NilCoapRequest ==
    [type |-> "nil", code |-> "", mid |-> 0, token |-> <<>>, path |-> <<>>,
     query |-> <<>>, host |-> NoHost, cf |-> NoCF, b1 |-> NoBlock, b2 |-> NoBlock,
     payload |-> <<>>]

\* a handler slot no datagram occupies
Idle ==
    [pc |-> "idle", m |-> NilCoapRequest, req |-> NilRequest, httpResp |-> NilResponse,
     raw |-> <<>>, returned |-> FALSE, ret |-> NilMsg, truncated |-> FALSE,
     calls |-> 0, cacheOps |-> 0, httpErr |-> FALSE, hit |-> FALSE, sent |-> NilRequest,
     session |-> "none", prev |-> <<>>, chan |-> 0, translated |-> FALSE]

\* the download client before it starts
DlOff ==
    [st |-> "off", num |-> 0, szx |-> 0, acc |-> <<>>, calls |-> 0, kept |-> TRUE]

\* the upload client before it starts: count uploads are complete, num is the
\* next fragment of the current one, acc the payloads it has sent of it
UlOff ==
    [st |-> "off", count |-> 0, num |-> 0, acc |-> <<>>]

----------------------------------------------------------------------------
(* proxyHandler.ServeCOAP (crosscoap.go:192-263) and the goroutine it      *)
(* starts.  The goroutine is cut at its cache accesses and at the backend  *)
(* call, where other handlers can run.                                     *)

\* the goroutine ends with a response of the backend (crosscoap.go:245-254):
\* responseChan <- &coapResp.Message waits while the channel of capacity 1
\* is full; ServeCOAP takes the message from the channel and returns it
Respond(hr, resp) ==
    IF IsConfirmable(hr.m)
    THEN LET t == translateHTTPResponseToCOAPResponse(resp, resp.Body, FALSE, hr.m)
         IN  IF hr.chan < 1
             THEN [hr EXCEPT !.pc = "done", !.httpResp = resp, !.ret = t.msg,
                             !.returned = TRUE, !.truncated = t.IsTruncated,
                             !.chan = @ + 1, !.translated = TRUE]
             ELSE [hr EXCEPT !.pc = "blocked", !.httpResp = resp, !.translated = TRUE]
    ELSE [hr EXCEPT !.pc = "done", !.httpResp = resp]

\* Fail without the sendResponse call: the goroutine returns and ServeCOAP
\* keeps waiting on the channel
Fail_NoSend(hr) ==
    [hr EXCEPT !.pc = "done"]

\* sendResponse(generateCOAPResponseMessage(m, coap.InternalServerError)); return
\* (crosscoap.go:220-221, 241-242): the select of crosscoap.go:203-208 puts
\* the message on the channel when there is room and drops it otherwise;
\* nobody reads the channel of a non-confirmable request
Fail(hr) ==
    IF IsConfirmable(hr.m)
    THEN [hr EXCEPT !.pc = "done", !.returned = TRUE,
                    !.ret = generateCOAPResponseMessage(hr.m, "InternalServerError"),
                    !.chan = IF @ < 1 THEN @ + 1 ELSE @]
    ELSE [hr EXCEPT !.pc = "done", !.chan = IF @ < 1 THEN @ + 1 ELSE @]

\* where the goroutine goes after the Block1 part (crosscoap.go:233-237)
AfterBlock1(m) == IF IsBlock2(m) THEN "resget" ELSE "http"

\* Serve without the check of crosscoap.go:196-198 for a request that could
\* not be formed
Serve_NoNilCheck(i, m, sess) ==
    LET req0 == translateCOAPRequestToHTTPRequest(m, backendURL)
        req == [req0 EXCEPT !.UserAgent = userAgent]
    IN  /\ ~crashed
        /\ h[i].pc = "idle"
        /\ h' = [h EXCEPT ![i] =
                [Idle EXCEPT !.pc = IF IsBlock1(m) THEN "b1get" ELSE AfterBlock1(m),
                             !.m = m, !.req = req, !.session = sess,
                             !.returned = ~IsConfirmable(m),
                             !.ret = IF IsConfirmable(m) THEN NilMsg
                                     ELSE generateCOAPResponseMessage(m, "Content")]]

\* crosscoap.go:193-210 and 257-262: translate the request, start the goroutine,
\* and for a non-confirmable request return at once
Serve(i, m, sess) ==
    LET req0 == translateCOAPRequestToHTTPRequest(m, backendURL)
        req == [req0 EXCEPT !.UserAgent = userAgent]
    IN  /\ ~crashed
        /\ h[i].pc = "idle"
        /\ h' = [h EXCEPT ![i] =
                IF ~req0.ok
                THEN [Idle EXCEPT !.pc = "done", !.m = m, !.session = sess,
                                  !.returned = TRUE,
                                  !.ret = generateCOAPResponseMessage(m, "BadRequest")]
                ELSE [Idle EXCEPT !.pc = IF IsBlock1(m) THEN "b1get" ELSE AfterBlock1(m),
                                  !.m = m, !.req = req, !.session = sess,
                                  !.returned = ~IsConfirmable(m),
                                  !.ret = IF IsConfirmable(m) THEN NilMsg
                                          ELSE generateCOAPResponseMessage(m, "Content")]]

\* the length of the request body the cache holds for the upload of req
UploadLen(req) ==
    IF ReqKey(req) \in DOMAIN cache THEN ReadRequest(cache[ReqKey(req)]).ContentLength ELSE 0

\* a datagram arrives and the dispatcher calls ServeCOAP
Receive(i, m) ==
    /\ IsBlock1(m) => UploadLen(translateCOAPRequestToHTTPRequest(m, backendURL)) < MaxUpload
    /\ Serve(i, m, "none")
    /\ UNCHANGED <<backendURL, cacheNil, cache, content, dl, ul, crashed, tin, tout>>

\* p.HTTPCache.Get on a nil cache: the goroutine panics and the process dies
Panic(i) ==
    /\ ~crashed
    /\ cacheNil
    /\ h[i].pc \in {"b1get", "resget"}
    /\ crashed' = TRUE
    /\ h' = [h EXCEPT ![i].pc = "panic"]
    /\ UNCHANGED <<backendURL, cacheNil, cache, content, dl, ul, tin, tout>>

\* CacheGetRequest without the copy of the URL of crosscoap.go:111
CacheGetRequest_ParsedURL(i) ==
    LET hr == h[i]
        key == ReqKey(hr.req)
        cached == key \in DOMAIN cache
        parsed == ReadRequest(cache[key])
        cacheReq == [parsed EXCEPT !.ContentLength = Len(parsed.Body) + Len(hr.req.Body),
                                   !.Body = parsed.Body \o hr.req.Body]
    IN  /\ ~crashed
        /\ ~cacheNil
        /\ hr.pc = "b1get"
        /\ h' = [h EXCEPT ![i] =
                IF ~cached THEN [hr EXCEPT !.pc = "b1set", !.cacheOps = @ + 1]
                ELSE IF ~parsed.ok THEN Fail([hr EXCEPT !.cacheOps = @ + 1])
                ELSE [hr EXCEPT !.pc = "b1set", !.req = cacheReq, !.hit = TRUE,
                                !.cacheOps = @ + 1, !.prev = parsed.Body]]
        /\ UNCHANGED <<backendURL, cacheNil, cache, content, dl, ul, crashed, tin, tout>>

\* cacheHTTPRequest up to the request to store (crosscoap.go:96-130)
CacheGetRequest(i) ==
    LET hr == h[i]
        key == ReqKey(hr.req)
        cached == key \in DOMAIN cache
        parsed == ReadRequest(cache[key])
        cacheReq == [parsed EXCEPT !.URL = hr.req.URL,
                                   !.ContentLength = Len(parsed.Body) + Len(hr.req.Body),
                                   !.Body = parsed.Body \o hr.req.Body]
    IN  /\ ~crashed
        /\ ~cacheNil
        /\ hr.pc = "b1get"
        /\ h' = [h EXCEPT ![i] =
                IF ~cached THEN [hr EXCEPT !.pc = "b1set", !.cacheOps = @ + 1]
                ELSE IF ~parsed.ok THEN Fail([hr EXCEPT !.cacheOps = @ + 1])
                ELSE [hr EXCEPT !.pc = "b1set", !.req = cacheReq, !.hit = TRUE,
                                !.cacheOps = @ + 1, !.prev = parsed.Body]]
        /\ UNCHANGED <<backendURL, cacheNil, cache, content, dl, ul, crashed, tin, tout>>

\* the rest of cacheHTTPRequest (crosscoap.go:132-137), then crosscoap.go:223
\* and, when delayRequest, crosscoap.go:245-254
CacheSetRequest(i) ==
    LET hr == [h[i] EXCEPT !.cacheOps = @ + 1]
        cacheKey == ReqKey(translateCOAPRequestToHTTPRequest(hr.m, backendURL))
    IN  /\ ~crashed
        /\ hr.pc = "b1set"
        /\ cache' = CacheSet(cache, cacheKey, DumpRequestOut(hr.req))
        /\ h' = [h EXCEPT ![i] =
                IF hr.m.b1.more THEN Respond(hr, NilResponse)
                ELSE [hr EXCEPT !.pc = AfterBlock1(hr.m), !.hit = FALSE]]
        /\ UNCHANGED <<backendURL, cacheNil, content, dl, ul, crashed, tin, tout>>

\* doHTTPRequestCached up to its cache lookup (crosscoap.go:141-153)
CacheGetResponse(i) ==
    LET hr == [h[i] EXCEPT !.cacheOps = @ + 1]
        key == ResKey(hr.req)
        cached == key \in DOMAIN cache
        parsed == ReadResponse(cache[key])
    IN  /\ ~crashed
        /\ ~cacheNil
        /\ hr.pc = "resget"
        /\ h' = [h EXCEPT ![i] =
                IF ~cached THEN [hr EXCEPT !.pc = "http"]
                ELSE IF ~parsed.ok THEN Fail(hr)
                ELSE [hr EXCEPT !.pc = "hitset", !.raw = cache[key], !.hit = TRUE,
                                !.httpResp = parsed.resp]]
        /\ UNCHANGED <<backendURL, cacheNil, cache, content, dl, ul, crashed, tin, tout>>

\* CacheRefresh that drops the entry instead of writing it back
CacheRefresh_Drop(i) ==
    LET hr == [h[i] EXCEPT !.cacheOps = @ + 1]
    IN  /\ ~crashed
        /\ hr.pc = "hitset"
        /\ cache' = CacheDrop(cache, ResKey(hr.req))
        /\ h' = [h EXCEPT ![i] = Respond(hr, hr.httpResp)]
        /\ UNCHANGED <<backendURL, cacheNil, content, dl, ul, crashed, tin, tout>>

\* the hit path of doHTTPRequestCached writes the entry back
\* (crosscoap.go:155-156), then crosscoap.go:245-254
CacheRefresh(i) ==
    LET hr == [h[i] EXCEPT !.cacheOps = @ + 1]
    IN  /\ ~crashed
        /\ hr.pc = "hitset"
        /\ cache' = CacheSet(cache, ResKey(hr.req), hr.raw)
        /\ h' = [h EXCEPT ![i] = Respond(hr, hr.httpResp)]
        /\ UNCHANGED <<backendURL, cacheNil, content, dl, ul, crashed, tin, tout>>

\* HTTPError that stores an empty response for a Block2 request
HTTPError_Stored(i) ==
    LET hr == [h[i] EXCEPT !.calls = @ + 1, !.sent = h[i].req, !.httpErr = TRUE]
    IN  /\ ~crashed
        /\ hr.pc = "http"
        /\ h' = [h EXCEPT ![i] = Fail(hr)]
        /\ cache' = IF IsBlock2(hr.m)
                    THEN CacheSet(cache, ResKey(hr.req), DumpResponse(NilResponse))
                    ELSE cache
        /\ dl' = IF hr.session = "download" THEN [dl EXCEPT !.calls = @ + 1] ELSE dl
        /\ UNCHANGED <<backendURL, cacheNil, content, ul, crashed, tin, tout>>

\* doHTTPRequest (crosscoap.go:171-190) fails: crosscoap.go:239-243
HTTPError(i) ==
    LET hr == [h[i] EXCEPT !.calls = @ + 1, !.sent = h[i].req, !.httpErr = TRUE]
    IN  /\ ~crashed
        /\ hr.pc = "http"
        /\ h' = [h EXCEPT ![i] = Fail(hr)]
        /\ dl' = IF hr.session = "download" THEN [dl EXCEPT !.calls = @ + 1] ELSE dl
        /\ UNCHANGED <<backendURL, cacheNil, cache, content, ul, crashed, tin, tout>>

\* doHTTPRequest (crosscoap.go:171-190) returns the backend's answer; without
\* Block2 the goroutine goes on to crosscoap.go:245-254
HTTPDo(i, answer) ==
    LET hr == [h[i] EXCEPT !.calls = @ + 1, !.sent = h[i].req]
        resp == [StatusCode |-> answer.StatusCode, ContentType |-> answer.ContentType,
                 ContentEncoding |-> answer.ContentEncoding, Body |-> content]
    IN  /\ ~crashed
        /\ hr.pc = "http"
        /\ h' = [h EXCEPT ![i] =
                IF IsBlock2(hr.m) THEN [hr EXCEPT !.pc = "resset", !.httpResp = resp]
                ELSE Respond(hr, resp)]
        /\ dl' = IF hr.session = "download" THEN [dl EXCEPT !.calls = @ + 1] ELSE dl
        /\ UNCHANGED <<backendURL, cacheNil, cache, content, ul, crashed, tin, tout>>

\* CacheSetResponse that leaves the response out of the cache
CacheSetResponse_NoStore(i) ==
    LET hr == [h[i] EXCEPT !.cacheOps = @ + 1]
    IN  /\ ~crashed
        /\ hr.pc = "resset"
        /\ h' = [h EXCEPT ![i] = Respond(hr, hr.httpResp)]
        /\ UNCHANGED <<backendURL, cacheNil, cache, content, dl, ul, crashed, tin, tout>>

\* the miss path of doHTTPRequestCached stores the response
\* (crosscoap.go:162-168), then crosscoap.go:245-254
CacheSetResponse(i) ==
    LET hr == [h[i] EXCEPT !.cacheOps = @ + 1]
    IN  /\ ~crashed
        /\ hr.pc = "resset"
        /\ cache' = CacheSet(cache, ResKey(hr.req), DumpResponse(hr.httpResp))
        /\ h' = [h EXCEPT ![i] = Respond(hr, hr.httpResp)]
        /\ UNCHANGED <<backendURL, cacheNil, content, dl, ul, crashed, tin, tout>>

----------------------------------------------------------------------------
(* The environment: the cache's own expiry, the backend's content, and a   *)
(* client that downloads the body with sequential Block2 requests          *)

\* the request of the download client for block dl.num
DlRequest ==
    [type |-> "Confirmable", code |-> "GET", mid |-> 7, token |-> Bytes(MaxToken),
     path |-> << <<"t">> >>, query |-> <<>>, host |-> NoHost, cf |-> NoCF,
     b1 |-> NoBlock, b2 |-> Block(dl.num, dl.szx, FALSE), payload |-> <<>>]

\* the key of the download client's response session
DlKey == ResKey(translateCOAPRequestToHTTPRequest(DlRequest, backendURL))

\* an entry leaves the cache: it is older than the cache's maximum age, or the
\* least recently used one when the cache is over its maximum size
Evict(key) ==
    /\ ~crashed
    /\ key \in DOMAIN cache
    /\ cache' = CacheDrop(cache, key)
    /\ dl' = IF dl.st # "off" /\ key = DlKey THEN [dl EXCEPT !.kept = FALSE] ELSE dl
    /\ UNCHANGED <<backendURL, cacheNil, content, h, ul, crashed, tin, tout>>

\* the client starts a download with block size exponent szx
DlStart(szx) ==
    /\ ~crashed
    /\ dl.st = "off"
    /\ dl' = [DlOff EXCEPT !.st = "ready", !.szx = szx]
    /\ UNCHANGED <<backendURL, cacheNil, cache, content, h, ul, crashed, tin, tout>>

\* the client asks for its next block
DlSend(i) ==
    /\ dl.st = "ready"
    /\ Serve(i, DlRequest, "download")
    /\ dl' = [dl EXCEPT !.st = "wait"]
    /\ UNCHANGED <<backendURL, cacheNil, cache, content, ul, crashed, tin, tout>>

\* the client reads the response rv: it appends the payload and goes on while
\* rv's Block2 option says more; a response without Block2 is an error response
DlTake(rv) ==
    IF ~rv.b2.has THEN [dl EXCEPT !.st = "failed"]
    ELSE IF ~rv.b2.more THEN [dl EXCEPT !.st = "done", !.acc = @ \o rv.payload]
    ELSE IF dl.num = MaxNum THEN [dl EXCEPT !.st = "stopped", !.acc = @ \o rv.payload]
    ELSE [dl EXCEPT !.st = "ready", !.num = @ + 1, !.acc = @ \o rv.payload]

\* the payload byte of fragment k of upload u: no two fragments share a byte
UlByte(u, k) == u * MaxFrags + k + 1

\* the bytes of the fragments of upload u
UlBytes(u) == {UlByte(u, k) : k \in 0..(MaxFrags - 1)}

\* the request of the upload client for fragment ul.num of its current upload:
\* every upload goes to the same method and URL, the last fragment has more
\* = false
UlRequest ==
    [type |-> "Confirmable", code |-> "POST", mid |-> 9, token |-> Bytes(1),
     path |-> << <<"t">> >>, query |-> <<>>, host |-> NoHost, cf |-> NoCF,
     b1 |-> Block(ul.num, 0, ul.num < MaxFrags - 1), b2 |-> NoBlock,
     payload |-> <<UlByte(ul.count, ul.num)>>]

\* the client starts its next upload
UlStart ==
    /\ ~crashed
    /\ ul.st = "off"
    /\ ul.count < MaxUploads
    /\ ul' = [ul EXCEPT !.st = "ready", !.num = 0, !.acc = <<>>]
    /\ UNCHANGED <<backendURL, cacheNil, cache, content, h, dl, crashed, tin, tout>>

\* the client sends its next fragment
UlSend(i) ==
    /\ ul.st = "ready"
    /\ Serve(i, UlRequest, "upload")
    /\ ul' = [ul EXCEPT !.st = "wait", !.acc = @ \o UlRequest.payload]
    /\ UNCHANGED <<backendURL, cacheNil, cache, content, dl, crashed, tin, tout>>

\* the client reads the response rv: after 2.31 Continue it goes on with the
\* next fragment, any other response ends the upload
UlTake(rv) ==
    IF rv.code = "Continue" /\ ul.num < MaxFrags - 1
    THEN [ul EXCEPT !.st = "ready", !.num = @ + 1]
    ELSE [ul EXCEPT !.st = "off", !.count = @ + 1]

\* the goroutine of a handler has ended and ServeCOAP has returned: the
\* dispatcher transmits the returned message, the slot is free again
Release(i) ==
    /\ ~crashed
    /\ h[i].pc = "done"
    /\ h[i].returned
    /\ h' = [h EXCEPT ![i] = Idle]
    /\ dl' = IF h[i].session = "download" THEN DlTake(h[i].ret) ELSE dl
    /\ ul' = IF h[i].session = "upload" THEN UlTake(h[i].ret) ELSE ul
    /\ UNCHANGED <<backendURL, cacheNil, cache, content, crashed, tin, tout>>

\* the handler slots: datagrams are handled one after the other
Handlers == {1}

NoInput == [resp |-> NilResponse, err |-> FALSE, req |-> NilCoapRequest]

NoOutput == [msg |-> NilMsg, IsTruncated |-> FALSE]

Init ==
    /\ backendURL \in BackendURLs
    /\ cacheNil \in BOOLEAN
    /\ cache = EmptyCache
    /\ content \in Bodies
    /\ h = [i \in Handlers |-> Idle]
    /\ dl = DlOff
    /\ ul = UlOff
    /\ crashed = FALSE
    /\ tin = NoInput
    /\ tout = NoOutput

Next ==
    \/ \E i \in DOMAIN h, m \in Msgs : Receive(i, m)
    \/ \E i \in DOMAIN h : Panic(i)
    \/ \E i \in DOMAIN h : CacheGetRequest(i)
    \/ \E i \in DOMAIN h : CacheSetRequest(i)
    \/ \E i \in DOMAIN h : CacheGetResponse(i)
    \/ \E i \in DOMAIN h : CacheRefresh(i)
    \/ \E i \in DOMAIN h : HTTPError(i)
    \/ \E i \in DOMAIN h, a \in Answers : HTTPDo(i, a)
    \/ \E i \in DOMAIN h : CacheSetResponse(i)
    \/ \E i \in DOMAIN h : Release(i)
    \/ \E k \in DOMAIN cache : Evict(k)

Spec == Init /\ [][Next]_vars

\* the steps of the goroutine ServeCOAP starts for handler i (crosscoap.go:210-255)
Goroutine(i) ==
    \/ Panic(i)
    \/ CacheGetRequest(i)
    \/ CacheSetRequest(i)
    \/ CacheGetResponse(i)
    \/ CacheRefresh(i)
    \/ HTTPError(i)
    \/ \E a \in Answers : HTTPDo(i, a)
    \/ CacheSetResponse(i)

\* a started goroutine keeps running until it ends: the scheduler runs it, the
\* cache answers, and the backend call returns or times out (crosscoap.go:172-177)
SpecLive == Init /\ [][Next]_vars /\ \A i \in Handlers : WF_vars(Goroutine(i))

\* the request translation on the requests a client can build, through
\* ServeCOAP: every method, several paths, queries and hosts, and an upload in
\* Block1 fragments
RequestBackendURLs ==
    {<<"h", ":", "/", "/", "b">>, <<"h", ":", "/", "/", "b", "/">>, <<"h", ":", "/", "/", "b", ":", "1", "/", "d">>}

RequestPaths == {<<>>, <<<<"t">>>>, <<<<"t">>, <<"v">>>>, <<<<"@", "c">>>>}

RequestQueries == {<<>>, <<<<"k", "=", "v">>>>, <<<<"a", "=", "b">>, <<"c", "=", "d", " ", "e", "&", "=", "f">>>>}

RequestHosts == {NoHost, <<"e">>}

\* requests without block options
PlainRequests ==
    [type : {"Confirmable"}, code : {"GET", "POST", "PUT", "DELETE"}, mid : {7},
     token : {Bytes(MaxToken)}, path : RequestPaths, query : RequestQueries,
     host : RequestHosts, cf : {NoCF, 50}, b1 : {NoBlock}, b2 : {NoBlock},
     payload : Payloads]

\* the fragments of an upload to one URL
UploadRequests ==
    [type : {"Confirmable"}, code : {"POST"}, mid : {7},
     token : {Bytes(MaxToken)}, path : {<<<<"t">>>>}, query : {<<<<"k", "=", "v">>>>},
     host : RequestHosts, cf : {NoCF}, b1 : Block1s \ {NoBlock}, b2 : {NoBlock},
     payload : {<<"p">>}]

RequestMsgs == PlainRequests \cup UploadRequests

InitRequest ==
    /\ backendURL \in RequestBackendURLs
    /\ cacheNil = FALSE
    /\ cache = EmptyCache
    /\ content = Bytes(1)
    /\ h = [i \in Handlers |-> Idle]
    /\ dl = DlOff
    /\ ul = UlOff
    /\ crashed = FALSE
    /\ tin = NoInput
    /\ tout = NoOutput

NextRequest ==
    \/ \E i \in DOMAIN h, m \in RequestMsgs : Receive(i, m)
    \/ \E i \in DOMAIN h : CacheGetRequest(i)
    \/ \E i \in DOMAIN h : CacheSetRequest(i)
    \/ \E i \in DOMAIN h : HTTPError(i)
    \/ \E i \in DOMAIN h, a \in Answers : HTTPDo(i, a)
    \/ \E i \in DOMAIN h : Release(i)
    \/ \E k \in DOMAIN cache : Evict(k)

SpecRequest == InitRequest /\ [][NextRequest]_vars

\* the download client, with the cache's expiry and the Block2 requests of
\* other clients in between
OtherBlock2(m) == IsBlock2(m) /\ ~IsBlock1(m) /\ IsConfirmable(m) /\ m.path = << <<"t">> >>

NextDownload ==
    \/ \E s \in 0..MaxSzx : DlStart(s)
    \/ \E i \in DOMAIN h : DlSend(i)
    \/ \E i \in DOMAIN h, m \in {x \in Msgs : OtherBlock2(x)} : Receive(i, m)
    \/ \E i \in DOMAIN h : Panic(i)
    \/ \E i \in DOMAIN h : CacheGetResponse(i)
    \/ \E i \in DOMAIN h : CacheRefresh(i)
    \/ \E i \in DOMAIN h : HTTPError(i)
    \/ \E i \in DOMAIN h, a \in Answers : HTTPDo(i, a)
    \/ \E i \in DOMAIN h : CacheSetResponse(i)
    \/ \E i \in DOMAIN h : Release(i)
    \/ \E k \in DOMAIN cache : Evict(k)

SpecDownload == Init /\ [][NextDownload]_vars

----------------------------------------------------------------------------
(* translateHTTPResponseToCOAPResponse on its own: the inputs are drawn in *)
(* the initial state, the one action applies the function                  *)

\* body lengths around the packet limit, the small ones, and the test's
TranslateBodies ==
    {Bytes(n) : n \in 0..MaxBody}
    \cup {Bytes(n) : n \in (maxCOAPPacketLen - 2 - BodySpread)..(maxCOAPPacketLen - 3)}
    \cup {Bytes(TestBodyLen)}

\* the requests a response is translated for
TranslateRequests ==
    [type : {"Confirmable"}, code : {"GET"}, mid : {7}, token : Tokens, path : {<< <<"t">> >>},
     query : {<<>>}, host : {NoHost}, cf : {NoCF}, b1 : {NoBlock, Block(1, 0, FALSE)},
     b2 : Block2s, payload : {<<>>}]

\* the status codes of HTTP responses
StatusCodes == 100..599

\* the request the status codes and content types are tried with
ProbeRequest ==
    [type |-> "Confirmable", code |-> "GET", mid |-> 7, token |-> Bytes(MaxToken),
     path |-> << <<"t">> >>, query |-> <<>>, host |-> NoHost, cf |-> NoCF,
     b1 |-> NoBlock, b2 |-> NoBlock, payload |-> <<>>]

\* responses of every status code
StatusProbes ==
    {[StatusCode |-> sc, ContentType |-> <<"">>, ContentEncoding |-> "", Body |-> <<>>] :
        sc \in StatusCodes}

\* Content-Type values: those of the table, with and without their parameter,
\* with another parameter, and one the table lacks
ProbeTypes ==
    {coapContentFormatContentType[id].Type : id \in DOMAIN coapContentFormatContentType}
    \cup {<<trimCharset(coapContentFormatContentType[id].Type)>> :
             id \in DOMAIN coapContentFormatContentType}
    \cup {<<"application/json", "charset=latin1">>, <<"image/png">>, <<"">>}

\* responses of every content type and encoding
FormatProbes ==
    {[StatusCode |-> 200, ContentType |-> ct, ContentEncoding |-> ce, Body |-> <<>>] :
        ct \in ProbeTypes, ce \in {"", "deflate", "gzip"}}

InitTranslate ==
    /\ backendURL \in BackendURLs
    /\ cacheNil = FALSE
    /\ cache = EmptyCache
    /\ content = <<>>
    /\ h = [i \in Handlers |-> Idle]
    /\ dl = DlOff
    /\ ul = UlOff
    /\ crashed = FALSE
    /\ tin \in [resp : {[StatusCode |-> a.StatusCode, ContentType |-> a.ContentType,
                         ContentEncoding |-> a.ContentEncoding, Body |-> b] :
                           a \in ContentTypes, b \in TranslateBodies},
                err : {FALSE}, req : TranslateRequests]
             \cup [resp : {NilResponse}, err : {TRUE}, req : TranslateRequests]
             \cup [resp : StatusProbes \cup FormatProbes, err : {FALSE}, req : {ProbeRequest}]
    /\ tout = NoOutput

Translate ==
    /\ tout = NoOutput
    /\ tout' = translateHTTPResponseToCOAPResponse(tin.resp, tin.resp.Body, tin.err, tin.req)
    /\ UNCHANGED <<backendURL, cacheNil, cache, content, h, dl, ul, crashed, tin>>

NextTranslate == Translate

SpecTranslate == InitTranslate /\ [][NextTranslate]_vars

\* Block2 options over the whole range of the wire format: the small block
\* numbers, the powers of two and the largest ones, with every size exponent
WireNums ==
    (0..MaxNum) \cup {Pow2(s) : s \in 0..MaxWireSzx} \cup {MaxWireNum - 1, MaxWireNum}

\* bodies around the block sizes: the small ones, and those that end just
\* before, at and after the largest block, and after two of them
WireBodies ==
    {Bytes(n) : n \in 0..MaxBody}
    \cup {Bytes(Pow2(MaxWireSzx) + d) : d \in {-1, 0, 1}}
    \cup {Bytes(2 * Pow2(MaxWireSzx) + 1)}

InitWire ==
    /\ backendURL \in BackendURLs
    /\ cacheNil = FALSE
    /\ cache = EmptyCache
    /\ content = <<>>
    /\ h = [i \in Handlers |-> Idle]
    /\ dl = DlOff
    /\ ul = UlOff
    /\ crashed = FALSE
    /\ tin \in [resp : {[StatusCode |-> 200, ContentType |-> <<"">>,
                         ContentEncoding |-> "", Body |-> b] : b \in WireBodies},
                err : {FALSE},
                req : {[ProbeRequest EXCEPT !.b2 = Block(n, s, FALSE)] :
                          n \in WireNums, s \in 0..MaxWireSzx}]
    /\ tout = NoOutput

SpecWire == InitWire /\ [][NextTranslate]_vars

----------------------------------------------------------------------------
(* Request options and response headers *)

\* the options of a request and the headers of a response, through ServeCOAP:
\* URI-Query sequences, Content-Format IDs in and outside the table, and
\* answers of every content type and encoding
QueryItems ==
    {<<"k">>, <<"k", "=", "v">>, <<"a", "=", "b">>,
     <<"c", "=", "d", " ", "e", "&", "=", "f">>, <<"=", "v">>, <<"k", "=">>}

QuerySeqs == UNION {[1..n -> QueryItems] : n \in 0..MaxItems}

\* Content-Format options: none, table entries, and IDs the table lacks
OptionFormats == {NoCF, 0, 50, 11050, 60, 65535}

OptionMsgs ==
    [type : {"Confirmable"}, code : {"GET"}, mid : {7}, token : {Bytes(MaxToken)},
     path : {<<<<"t">>>>}, query : QuerySeqs, host : {NoHost}, cf : {NoCF},
     b1 : {NoBlock}, b2 : {NoBlock}, payload : {<<>>}]
    \cup
    [type : {"Confirmable"}, code : {"POST"}, mid : {7}, token : {Bytes(MaxToken)},
     path : {<<<<"t">>>>}, query : {<<>>}, host : {NoHost}, cf : OptionFormats,
     b1 : {NoBlock}, b2 : {NoBlock}, payload : {<<"p">>}]

FormatAnswers ==
    {[StatusCode |-> 200, ContentType |-> ct, ContentEncoding |-> ce] :
        ct \in ProbeTypes, ce \in {"", "deflate", "gzip"}}

NextOptions ==
    \/ \E i \in DOMAIN h, m \in OptionMsgs : Receive(i, m)
    \/ \E i \in DOMAIN h : HTTPError(i)
    \/ \E i \in DOMAIN h, a \in FormatAnswers : HTTPDo(i, a)
    \/ \E i \in DOMAIN h : Release(i)

SpecOptions == InitRequest /\ [][NextOptions]_vars

----------------------------------------------------------------------------
(* Two datagrams handled at the same time: coap.Serve starts a goroutine   *)
(* for each datagram, so the steps of two ServeCOAP calls interleave at    *)
(* their cache accesses and backend calls                                  *)

\* the ServeCOAP calls that run at the same time
Workers == {1, 2}

\* fragments of uploads and Block2 requests, all for one method and URL
ConcurrentMsgs ==
    [type : {"Confirmable"}, code : {"GET"}, mid : {7}, token : {Bytes(MaxToken)},
     path : {<< <<"t">> >>}, query : {<<>>}, host : {NoHost}, cf : {NoCF},
     b1 : {Block(0, 0, TRUE)}, b2 : {NoBlock}, payload : {<<"p">>, <<"q">>}]
    \cup
    [type : {"Confirmable"}, code : {"GET"}, mid : {7}, token : {Bytes(MaxToken)},
     path : {<< <<"t">> >>}, query : {<<>>}, host : {NoHost}, cf : {NoCF},
     b1 : {NoBlock}, b2 : {Block(0, 0, FALSE), Block(1, 0, FALSE)}, payload : {<<>>}]

InitConcurrent ==
    /\ backendURL \in BackendURLs
    /\ cacheNil = FALSE
    /\ cache = EmptyCache
    /\ content = Bytes(MaxBody)
    /\ h = [i \in Workers |-> Idle]
    /\ dl = DlOff
    /\ ul = UlOff
    /\ crashed = FALSE
    /\ tin = NoInput
    /\ tout = NoOutput

\* each call handles one datagram; no entry leaves the cache meanwhile
NextConcurrent ==
    \/ \E i \in DOMAIN h, m \in ConcurrentMsgs : Receive(i, m)
    \/ \E i \in DOMAIN h : CacheGetRequest(i)
    \/ \E i \in DOMAIN h : CacheSetRequest(i)
    \/ \E i \in DOMAIN h : CacheGetResponse(i)
    \/ \E i \in DOMAIN h : CacheRefresh(i)
    \/ \E i \in DOMAIN h : HTTPError(i)
    \/ \E i \in DOMAIN h, a \in Answers : HTTPDo(i, a)
    \/ \E i \in DOMAIN h : CacheSetResponse(i)

SpecConcurrent == InitConcurrent /\ [][NextConcurrent]_vars

----------------------------------------------------------------------------
(* Uploads one after the other: a client sends the fragments of an upload  *)
(* in order, waits for each response, and starts its next upload to the    *)
(* same method and URL when the last fragment has been answered            *)

InitUpload ==
    /\ backendURL \in BackendURLs
    /\ cacheNil = FALSE
    /\ cache = EmptyCache
    /\ content = Bytes(1)
    /\ h = [i \in Handlers |-> Idle]
    /\ dl = DlOff
    /\ ul = UlOff
    /\ crashed = FALSE
    /\ tin = NoInput
    /\ tout = NoOutput

NextUpload ==
    \/ UlStart
    \/ \E i \in DOMAIN h : UlSend(i)
    \/ \E i \in DOMAIN h : CacheGetRequest(i)
    \/ \E i \in DOMAIN h : CacheSetRequest(i)
    \/ \E i \in DOMAIN h : HTTPError(i)
    \/ \E i \in DOMAIN h, a \in Answers : HTTPDo(i, a)
    \/ \E i \in DOMAIN h : Release(i)
    \/ \E key \in DOMAIN cache : Evict(key)

SpecUpload == InitUpload /\ [][NextUpload]_vars

----------------------------------------------------------------------------
(* Two clients: while the upload client is between two fragments, another  *)
(* client, with its own token, sends a fragment to the same method and URL *)

\* the payload byte of the other client: no fragment of the upload client
\* carries it
OtherByte == 0

\* the fragment of the other client: ServeCOAP gets its address a and its
\* token in m (crosscoap.go:192), the key of crosscoap.go:96 has neither
OtherRequest ==
    [UlRequest EXCEPT !.mid = 8, !.token = Bytes(2), !.b1 = Block(0, 0, TRUE),
                      !.payload = <<OtherByte>>]

\* the other client sends its fragment while the upload client, whose first
\* fragment was answered 2.31 Continue, has not sent its next one
OtherSend(i) ==
    /\ ul.st = "ready"
    /\ ul.num > 0
    /\ Receive(i, OtherRequest)

NextClients ==
    \/ UlStart
    \/ \E i \in DOMAIN h : UlSend(i)
    \/ \E i \in DOMAIN h : OtherSend(i)
    \/ \E i \in DOMAIN h : CacheGetRequest(i)
    \/ \E i \in DOMAIN h : CacheSetRequest(i)
    \/ \E i \in DOMAIN h : HTTPError(i)
    \/ \E i \in DOMAIN h, a \in Answers : HTTPDo(i, a)
    \/ \E i \in DOMAIN h : Release(i)
    \/ \E key \in DOMAIN cache : Evict(key)

SpecClients == InitUpload /\ [][NextClients]_vars

----------------------------------------------------------------------------
(* Block2 requests to one URL that differ in method, payload, URI-Host or  *)
(* Content-Format, handled by two ServeCOAP calls                          *)

SessionMsgs ==
    [type : {"Confirmable"}, code : {"GET", "POST"}, mid : {7}, token : {Bytes(MaxToken)},
     path : {<< <<"t">> >>}, query : {<<>>}, host : {NoHost, <<"e">>}, cf : {NoCF, 0},
     b1 : {NoBlock}, b2 : {Block(0, 0, FALSE)}, payload : {<<>>, <<"p">>}]

\* each call handles one datagram; no entry leaves the cache meanwhile
NextSession ==
    \/ \E i \in DOMAIN h, m \in SessionMsgs : Receive(i, m)
    \/ \E i \in DOMAIN h : CacheGetResponse(i)
    \/ \E i \in DOMAIN h : CacheRefresh(i)
    \/ \E i \in DOMAIN h : HTTPError(i)
    \/ \E i \in DOMAIN h, a \in Answers : HTTPDo(i, a)
    \/ \E i \in DOMAIN h : CacheSetResponse(i)

SpecSession == InitConcurrent /\ [][NextSession]_vars

----------------------------------------------------------------------------
(* Termination of a handler: ServeCOAP calls with a cache, the goroutine   *)
(* scheduled until it ends and every backend call returning a response or  *)
(* an error                                                                *)

\* requests of both types, with and without Block1 and Block2, one path that
\* no URL can be formed from
TerminateMsgs ==
    {m \in [type : {"Confirmable", "NonConfirmable"}, code : {"GET"}, mid : {7},
            token : {Bytes(MaxToken)}, path : Paths, query : {<<>>}, host : {NoHost},
            cf : {NoCF}, b1 : Block1s, b2 : {NoBlock, Block(0, 0, FALSE)},
            payload : Payloads] :
        /\ m.b1.has <=> m.payload # <<>>
        /\ m.path # << <<"t">> >> => (IsConfirmable(m) /\ ~m.b1.has /\ ~m.b2.has)}

InitTerminate ==
    /\ backendURL \in BackendURLs
    /\ cacheNil = FALSE
    /\ cache = EmptyCache
    /\ content = Bytes(MaxBody)
    /\ h = [i \in Handlers |-> Idle]
    /\ dl = DlOff
    /\ ul = UlOff
    /\ crashed = FALSE
    /\ tin = NoInput
    /\ tout = NoOutput

NextTerminate ==
    \/ \E i \in DOMAIN h, m \in TerminateMsgs : Receive(i, m)
    \/ \E i \in DOMAIN h : CacheGetRequest(i)
    \/ \E i \in DOMAIN h : CacheSetRequest(i)
    \/ \E i \in DOMAIN h : CacheGetResponse(i)
    \/ \E i \in DOMAIN h : CacheRefresh(i)
    \/ \E i \in DOMAIN h : HTTPError(i)
    \/ \E i \in DOMAIN h, a \in Answers : HTTPDo(i, a)
    \/ \E i \in DOMAIN h : CacheSetResponse(i)
    \/ \E i \in DOMAIN h : Release(i)
    \/ \E key \in DOMAIN cache : Evict(key)

\* the scheduler runs every started goroutine, the cache answers, and the
\* backend call returns or times out (crosscoap.go:172-177)
SpecTerminate ==
    InitTerminate /\ [][NextTerminate]_vars /\ \A i \in Handlers : WF_vars(Goroutine(i))

----------------------------------------------------------------------------
(* The claims *)

\* a handler whose ServeCOAP call has come to its end
Ended(i) == h[i].pc \in {"done", "panic"}

\* msg answers the request m: an acknowledgement with m's MessageID and Token
Acks(msg, m) ==
    /\ msg.type = "Acknowledgement"
    /\ msg.mid = m.mid
    /\ msg.token = m.token

\* C1: every confirmable request ServeCOAP handles ends with one returned
\* message, an Acknowledgement with the request's MessageID and Token.
C1_ConfirmableAnswered ==
    \A i \in DOMAIN h :
        (IsConfirmable(h[i].m) /\ Ended(i)) => (h[i].returned /\ Acks(h[i].ret, h[i].m))

\* C1, what the code does keep: with a cache configured every confirmable
\* request is answered so.
C1_AnsweredWithCache == cacheNil \/ C1_ConfirmableAnswered

\* C2: for a non-confirmable request ServeCOAP returns no message.
C2_NonConfirmableSilent ==
    \A i \in DOMAIN h :
        (h[i].m.type = "NonConfirmable" /\ h[i].returned) => h[i].ret = NilMsg

\* C3: when the backend call of a confirmable request fails, the response has
\* code 5.03 Service Unavailable, no payload, no Content-Format, and the
\* request's MessageID and Token.
C3_BackendErrorIs503 ==
    \A i \in DOMAIN h :
        (IsConfirmable(h[i].m) /\ h[i].httpErr /\ h[i].pc = "done") =>
            /\ h[i].returned
            /\ h[i].ret.code = "ServiceUnavailable"
            /\ h[i].ret.payload = <<>>
            /\ h[i].ret.cf = NoCF
            /\ Acks(h[i].ret, h[i].m)

\* the URL of the request does not parse, so no HTTP request can be formed
Malformed(m) ==
    ~URLParses(addFinalSlash(backendURL) \o PathString(m.path) \o queryString(m))

\* C4: a confirmable request no HTTP request can be formed from is answered
\* 4.00 Bad Request with the request's MessageID and Token, without a backend
\* call and without a cache access.
C4_BadRequest ==
    \A i \in DOMAIN h :
        (IsConfirmable(h[i].m) /\ Malformed(h[i].m) /\ h[i].pc # "idle") =>
            /\ h[i].pc = "done"
            /\ h[i].returned
            /\ h[i].ret.code = "BadRequest"
            /\ Acks(h[i].ret, h[i].m)
            /\ h[i].calls = 0
            /\ h[i].cacheOps = 0
            /\ h[i].sent = NilRequest

C4_Witness ==
    \E i \in DOMAIN h :
        /\ IsConfirmable(h[i].m) /\ h[i].m.path = << <<"%">> >> /\ h[i].m.b2.has
        /\ h[i].pc = "done" /\ h[i].ret.code = "BadRequest"
        /\ cache # EmptyCache

\* the translator has been applied to a response of the backend
Translated == tout # NoOutput /\ ~tin.err

\* C5: without Block2 the payload is the first min(|B|, 1500 - headersLen - 1)
\* bytes of the body B, headersLen being the length of the serialized response
\* without payload, and the truncated flag is set exactly when
\* |B| > 1500 - headersLen - 1.
C5_Truncation ==
    (Translated /\ ~IsBlock2(tin.req)) =>
        LET B == tin.resp.Body
            headersLen == MarshalLen(tout.msg)
            room == 1500 - headersLen - 1
        IN  /\ tout.msg.payload = Slice(B, 0, Min(Len(B), room))
            /\ tout.IsTruncated <=> (Len(B) > room)

\* a body of exactly the room left, and the 4000-byte body of the test
C5_Witness ==
    /\ Translated /\ ~IsBlock2(tin.req)
    /\ Len(tin.resp.Body) = 4000
    /\ Len(tin.req.token) = 5 /\ tout.msg.cf = NoCF /\ ~tout.msg.b1.has
    /\ Len(tout.msg.payload) = 1490
    /\ tout.IsTruncated

\* C6: every message the proxy returns serializes to at most 1500 bytes:
\* header bytes, one separator byte and the payload.
C6_PacketLimit ==
    \A i \in DOMAIN h :
        h[i].returned => MarshalLen(h[i].ret) + 1 + Len(h[i].ret.payload) <= 1500

\* a truncated answer to a Block2 request for a block past the end of the body
C6_Witness ==
    \E i \in DOMAIN h :
        /\ h[i].returned /\ h[i].truncated /\ h[i].m.b2.has
        /\ MarshalLen(h[i].ret) + 1 + Len(h[i].ret.payload) = 1500

\* C7: a client that asks for the blocks 0, 1, 2, ... of a body and stops at
\* the first response whose more flag is false has received payloads whose
\* concatenation is the body.
C7_Block2RoundTrip == dl.st = "done" => dl.acc = content

\* a body of a whole number of blocks, fetched in three requests or more
C7_Witness ==
    /\ dl.st = "done" /\ dl.num >= 2 /\ dl.acc = content
    /\ Len(content) = dl.num * Pow2(dl.szx)

\* the download client's request in flight is not its first
DlLater(i) == h[i].session = "download" /\ h[i].m.b2.num > 0

\* C8: while the entry is not evicted, only the first of the sequential Block2
\* requests calls the backend; its response is stored under
\* "RES <method> <url>", and every later request is answered from that entry
\* without a backend call.
C8_OneBackendCall ==
    ((dl.st \in {"ready", "wait"} /\ dl.num > 0) \/ dl.st \in {"done", "stopped"}) =>
    (dl.kept =>
        /\ dl.calls <= 1
        /\ DlKey \in DOMAIN cache
        /\ ReadResponse(cache[DlKey]).ok
        /\ ReadResponse(cache[DlKey]).resp.Body = content
        /\ \A i \in DOMAIN h :
               DlLater(i) => /\ h[i].calls = 0
                             /\ h[i].pc \in {"resget", "hitset", "done"}
                             /\ h[i].pc = "done" => h[i].hit)

\* a download of three requests or more of which the first called the backend
C8_Witness ==
    /\ dl.st = "done" /\ dl.num >= 2 /\ dl.kept /\ dl.calls = 1

\* the translator has answered a Block2 request from a body
Carved == Translated /\ IsBlock2(tin.req)

\* C9: the more flag of a Block2 response is false exactly when
\* (num+1)*2^(szx+4) >= |body|.
C9_MoreFlag ==
    Carved =>
        (~tout.msg.b2.more <=>
            (tin.req.b2.num + 1) * Pow2(tin.req.b2.szx + 4) >= Len(tin.resp.Body))

\* C10: a Block2 request (num, szx) whose block starts inside the body is
\* answered with body[num*size .. min((num+1)*size, |body|)], size = 2^(szx+4).
C10_BlockSlice ==
    LET size == Pow2(tin.req.b2.szx + 4)
        num == tin.req.b2.num
        body == tin.resp.Body
    IN  (Carved /\ num * size <= Len(body)) =>
            tout.msg.payload = Slice(body, num * size, Min((num + 1) * size, Len(body)))

\* C11: every response to a confirmable request with a Block2 option carries a
\* Block2 option with the requested num and szx, on every path.
C11_Block2Echoed ==
    \A i \in DOMAIN h :
        (IsConfirmable(h[i].m) /\ IsBlock2(h[i].m) /\ h[i].returned) =>
            /\ h[i].ret.b2.has
            /\ h[i].ret.b2.num = h[i].m.b2.num
            /\ h[i].ret.b2.szx = h[i].m.b2.szx

\* C11, what the code does keep: a response translated from a response of the
\* backend or of the cache echoes Block2, unless the request is a Block1
\* fragment with more = true.
C11_EchoedOnSuccess ==
    \A i \in DOMAIN h :
        (/\ IsConfirmable(h[i].m) /\ IsBlock2(h[i].m) /\ h[i].returned
         /\ h[i].ret.code \notin {"BadRequest", "InternalServerError", "Continue"}) =>
            /\ h[i].ret.b2.has
            /\ h[i].ret.b2.num = h[i].m.b2.num
            /\ h[i].ret.b2.szx = h[i].m.b2.szx

\* the request is a Block1 fragment that more fragments follow
Block1More(m) == IsBlock1(m) /\ m.b1.more

\* C12: a confirmable request whose Block1 option has more = true is answered
\* 2.31 Continue with the same Block1 option, and no backend call is made for it.
C12_Continue ==
    \A i \in DOMAIN h :
        (IsConfirmable(h[i].m) /\ Block1More(h[i].m)) =>
            /\ h[i].calls = 0
            /\ Ended(i) =>
                   /\ h[i].returned
                   /\ h[i].ret.code = "Continue"
                   /\ h[i].ret.b1 = Block(h[i].m.b1.num, h[i].m.b1.szx, TRUE)

\* C12, what the code does keep: so it is for a request an HTTP request can be
\* formed from, when a cache is configured.
C12_ContinueWithCache ==
    \A i \in DOMAIN h :
        (/\ IsConfirmable(h[i].m) /\ Block1More(h[i].m)
         /\ ~cacheNil /\ ~Malformed(h[i].m)) =>
            /\ h[i].calls = 0
            /\ Ended(i) =>
                   /\ h[i].returned
                   /\ h[i].ret.code = "Continue"
                   /\ h[i].ret.b1 = Block(h[i].m.b1.num, h[i].m.b1.szx, TRUE)

\* the body the upload of handler i has reached: the body of the entry its
\* fragment found, followed by the fragment's payload
Assembled(i) == h[i].prev \o h[i].m.payload

\* the request-assembly key of the request of handler i
UploadKey(i) == ReqKey(translateCOAPRequestToHTTPRequest(h[i].m, backendURL))

\* C13: handling a Block1 fragment with payload P leaves the entry
\* "REQ <method> <url>" with the body of the previous entry (empty when there
\* was none) followed by P and the Content-Length of that body; with
\* more = false the backend is handed exactly that body and the response
\* echoes Block1 (num, szx, more = false).
C13_Reassembly ==
    \A i \in DOMAIN h :
        (IsBlock1(h[i].m) /\ ~Malformed(h[i].m) /\ Ended(i)) =>
            /\ h[i].cacheOps >= 2
            /\ UploadKey(i) \in DOMAIN cache =>
                   /\ ReadRequest(cache[UploadKey(i)]).Body = Assembled(i)
                   /\ ReadRequest(cache[UploadKey(i)]).ContentLength = Len(Assembled(i))
            /\ ~h[i].m.b1.more =>
                   /\ h[i].calls = 1
                   /\ h[i].sent.Body = Assembled(i)
                   /\ IsConfirmable(h[i].m) =>
                          h[i].ret.b1 = Block(h[i].m.b1.num, h[i].m.b1.szx, FALSE)

\* C13, what the code does keep: so it is when a cache is configured, the echo
\* of Block1 being that of a response translated from the backend's.
C13_ReassemblyWithCache ==
    \A i \in DOMAIN h :
        (IsBlock1(h[i].m) /\ ~Malformed(h[i].m) /\ Ended(i) /\ ~cacheNil) =>
            /\ h[i].cacheOps >= 2
            /\ UploadKey(i) \in DOMAIN cache =>
                   /\ ReadRequest(cache[UploadKey(i)]).Body = Assembled(i)
                   /\ ReadRequest(cache[UploadKey(i)]).ContentLength = Len(Assembled(i))
            /\ (~h[i].m.b1.more /\ h[i].calls = 1) => h[i].sent.Body = Assembled(i)
            /\ (~h[i].m.b1.more /\ IsConfirmable(h[i].m) /\ h[i].ret.code # "InternalServerError") =>
                   h[i].ret.b1 = Block(h[i].m.b1.num, h[i].m.b1.szx, FALSE)

\* a non-confirmable request whose goroutine ServeCOAP has started and that is
\* to reach the backend
FireAndForget(i) ==
    /\ h[i].pc # "idle"
    /\ h[i].m.type = "NonConfirmable"
    /\ ~Malformed(h[i].m)
    /\ ~Block1More(h[i].m)

\* C14: for every non-confirmable request that translates to an HTTP request
\* and is not a Block1 fragment with more = true, the backend call is
\* eventually issued.
C14_BackendCalled ==
    \A i \in Handlers : FireAndForget(i) ~> (h[i].calls > 0)

\* C14, what the code does keep: the call is issued for such a request without
\* block options.
C14_CalledWithoutBlocks ==
    \A i \in Handlers :
        (FireAndForget(i) /\ ~IsBlock1(h[i].m) /\ ~IsBlock2(h[i].m)) ~> (h[i].calls > 0)

\* the dotted form class.detail of the response codes
Dotted(code) ==
    CASE code = "Created" -> "2.01"
      [] code = "Valid" -> "2.03"
      [] code = "Content" -> "2.05"
      [] code = "Continue" -> "2.31"
      [] code = "BadRequest" -> "4.00"
      [] code = "Unauthorized" -> "4.01"
      [] code = "Forbidden" -> "4.03"
      [] code = "NotFound" -> "4.04"
      [] code = "MethodNotAllowed" -> "4.05"
      [] code = "NotAcceptable" -> "4.06"
      [] code = "PreconditionFailed" -> "4.12"
      [] code = "RequestEntityTooLarge" -> "4.13"
      [] code = "UnsupportedMediaType" -> "4.15"
      [] code = "InternalServerError" -> "5.00"
      [] code = "NotImplemented" -> "5.01"
      [] code = "BadGateway" -> "5.02"
      [] code = "ServiceUnavailable" -> "5.03"
      [] code = "GatewayTimeout" -> "5.04"
      [] OTHER -> "?"

\* the status mapping as the specification lists it
MappedStatus ==
    {<<200, "2.05">>, <<201, "2.01">>, <<204, "2.05">>, <<304, "2.03">>, <<400, "4.00">>,
     <<401, "4.01">>, <<403, "4.03">>, <<404, "4.04">>, <<405, "4.05">>, <<406, "4.06">>,
     <<412, "4.12">>, <<413, "4.13">>, <<415, "4.15">>, <<500, "5.00">>, <<501, "5.01">>,
     <<502, "5.02">>, <<503, "5.03">>, <<504, "5.04">>}

\* C15: the code of the response to a backend response of status s is the
\* listed value for s, and 2.05 Content for every status that is not listed.
C15_StatusMapping ==
    Translated =>
        LET sc == tin.resp.StatusCode
            code == Dotted(tout.msg.code)
        IN  /\ \A e \in MappedStatus : e[1] = sc => code = e[2]
            /\ (\A e \in MappedStatus : e[1] # sc) => code = "2.05"

\* a status the list lacks
C15_Witness ==
    /\ Translated /\ tin.resp.StatusCode = 418
    /\ tout.msg.code = "Content"

\* C18: a response whose media type and encoding are those of one of the seven
\* table entries gets exactly that entry's ID as Content-Format, and looking
\* that ID up gives the media type (up to its parameter) and the encoding back.
C18_ContentFormatRoundTrip ==
    \A id \in {0, 40, 41, 42, 47, 50, 11050} :
        (/\ Translated
         /\ tin.resp.ContentType = coapContentFormatContentType[id].Type
         /\ tin.resp.ContentEncoding = coapContentFormatContentType[id].Encoding) =>
            LET back == getContentFormatFromCoapMessage(tout.msg)
            IN  /\ tout.msg.cf = id
                /\ back.found
                /\ trimCharset(back.ct.Type) = trimCharset(tin.resp.ContentType)
                /\ back.ct.Encoding = tin.resp.ContentEncoding

\* the entry that shares its media type with another one
C18_Witness ==
    /\ Translated
    /\ tin.resp.ContentType = <<"application/json">>
    /\ tin.resp.ContentEncoding = "deflate"
    /\ tout.msg.cf = 11050

\* the request ServeCOAP has built for handler i and not yet replaced by the
\* assembled one
Built(i) ==
    /\ h[i].pc # "idle"
    /\ h[i].req.ok
    /\ IsBlock1(h[i].m) => h[i].pc = "b1get"

\* the prefix with "/" appended only if it does not end in one
SlashEnded(prefix) ==
    IF prefix # <<>> /\ prefix[Len(prefix)] = "/" THEN prefix ELSE prefix \o <<"/">>

\* C16: for a request with method GET, POST, PUT or DELETE the HTTP request
\* has the same method, the URL that is the backend prefix (with "/" appended
\* only if it does not end in one), the joined URI-Path segments and the
\* encoded query string, the payload as body, and User-Agent crosscoap/1.0.
C16_RequestBuilt ==
    \A i \in DOMAIN h :
        (Built(i) /\ h[i].m.code \in {"GET", "POST", "PUT", "DELETE"}) =>
            /\ h[i].req.Method = h[i].m.code
            /\ h[i].req.URL = SlashEnded(backendURL) \o PathString(h[i].m.path)
                                  \o queryString(h[i].m)
            /\ h[i].req.Body = h[i].m.payload
            /\ h[i].req.UserAgent = "crosscoap/1.0"
            /\ (h[i].calls > 0 /\ ~IsBlock1(h[i].m)) => h[i].sent = h[i].req

\* the request of the translator's test, on a prefix that does not end in "/"
C16_Witness ==
    \E i \in DOMAIN h :
        /\ h[i].calls > 0
        /\ h[i].m.code = "POST" /\ h[i].m.payload = <<"p">>
        /\ h[i].m.path = <<<<"t">>, <<"v">>>>
        /\ h[i].m.query = <<<<"a", "=", "b">>, <<"c", "=", "d", " ", "e", "&", "=", "f">>>>
        /\ backendURL = <<"h", ":", "/", "/", "b", ":", "1", "/", "d">>
        /\ h[i].sent.URL = <<"h", ":", "/", "/", "b", ":", "1", "/", "d", "/", "t", "/", "v",
                             "?", "a", "=", "b", "&", "c", "=", "d", "+", "e",
                             "%", "2", "6", "%", "3", "D", "f">>
        /\ h[i].sent.Body = <<"p">>

\* C17: the scheme, host and port of the URL of every HTTP request, the ones
\* rebuilt from the cache for a Block1 fragment included, are those of the
\* backend URL; a string URI-Host option sets the Host header only.
C17_BackendOrigin ==
    \A i \in DOMAIN h :
        /\ (h[i].pc # "idle" /\ h[i].req.ok) => Origin(h[i].req.URL) = Origin(backendURL)
        /\ h[i].calls > 0 => Origin(h[i].sent.URL) = Origin(backendURL)
        /\ (h[i].calls > 0 /\ ~IsBlock1(h[i].m) /\ h[i].m.host # NoHost) =>
               h[i].sent.Host = h[i].m.host

\* a request with a URI-Host, rebuilt from the cache and handed to the backend
C17_Witness ==
    \E i \in DOMAIN h :
        /\ h[i].calls > 0 /\ IsBlock1(h[i].m) /\ h[i].prev # <<>>
        /\ h[i].sent.Host = <<"e">>
        /\ Origin(h[i].sent.URL) = <<"h", ":", "/", "/", "b", ":", "1">>
        /\ backendURL = <<"h", ":", "/", "/", "b", ":", "1", "/", "d">>

\* the handlers that hold a request
Busy == {i \in DOMAIN h : h[i].pc # "idle" /\ h[i].req.ok}

\* C19: no request-assembly key equals a response-session key, so every entry
\* under a "REQ" key reads back as an HTTP request and every entry under a
\* "RES" key as an HTTP response, whatever Block1 and Block2 requests came.
C19_NamespacesDisjoint ==
    /\ \A i, j \in Busy : ReqKey(h[i].req) # ResKey(h[j].req)
    /\ \A k \in DOMAIN cache :
           /\ k[1] = "REQ" => ReadRequest(cache[k]).ok /\ ~ReadResponse(cache[k]).ok
           /\ k[1] = "RES" => ReadResponse(cache[k]).ok /\ ReadRequest(cache[k]) = NilRequest
    /\ \A i \in DOMAIN h :
           (h[i].pc = "done" /\ h[i].ret.code = "InternalServerError") => h[i].httpErr

\* a request with Block1 and Block2 is answered from the response session
\* while the request assembly of the same method and URL is in the cache
C19_Witness ==
    \E i \in DOMAIN h :
        /\ h[i].pc = "hitset" /\ IsBlock1(h[i].m) /\ IsBlock2(h[i].m)
        /\ ReqKey(h[i].req) \in DOMAIN cache
        /\ ResKey(h[i].req) \in DOMAIN cache

\* C20: handling a message never ends the process, whatever the configuration
\* of the Proxy (its HTTPCache may be nil) and whatever the message.
C20_NeverCrashes == ~crashed

\* C20, what the code does keep: with a cache configured no handler panics.
C20_SafeWithCache == cacheNil \/ ~crashed

\* readTo of a Block2 request as computed before any clamping
ReadTo(req) == req.b2.num * BlockSize(req.b2.szx) + BlockSize(req.b2.szx)

\* C22: with readTo = num*size + size taken before any clamping, the response
\* has more = false and its slice ends with the body when readTo exceeds
\* |body|, and has more = true in every other case, readTo = |body| included.
C22_MoreRule ==
    Carved =>
        LET body == tin.resp.Body
            payload == tout.msg.payload
        IN  IF ReadTo(tin.req) > Len(body)
            THEN /\ ~tout.msg.b2.more
                 /\ (payload # <<>> /\ ~tout.IsTruncated) =>
                        payload[Len(payload)] = body[Len(body)]
            ELSE tout.msg.b2.more

\* a block that ends exactly where the body ends
C22_Witness ==
    /\ Carved
    /\ tin.resp.Body # <<>>
    /\ ReadTo(tin.req) = Len(tin.resp.Body)
    /\ tout.msg.b2.more

\* the Block2 request names a block past the end of the body
PastEnd == Carved /\ tin.req.b2.num * BlockSize(tin.req.b2.szx) > Len(tin.resp.Body)

\* C23: a Block2 request for a block past the end of the body is answered with
\* the translated status, a payload carved from offset 0 of the body, and a
\* Block2 option with the requested num and szx and more = false.
C23_PastEndFromStart ==
    PastEnd =>
        LET body == tin.resp.Body
            payload == tout.msg.payload
        IN  /\ tout.msg.code = translateStatusCode(tin.resp.StatusCode)
            /\ payload = Slice(body, 0, Len(payload))
            /\ payload = body \/ tout.IsTruncated
            /\ tout.msg.b2 = Block(tin.req.b2.num, tin.req.b2.szx, FALSE)

\* a block past the end of a body that has bytes, answered with the whole body
C23_Witness ==
    /\ PastEnd
    /\ tin.resp.Body # <<>>
    /\ tin.resp.StatusCode = 404 /\ tout.msg.code = "NotFound"
    /\ tout.msg.payload = tin.resp.Body

\* the key of a URI-Query item: its longest prefix without "="
KeyLen(item) ==
    CHOOSE n \in 0..Len(item) :
        /\ \A j \in 1..n : item[j] # "="
        /\ n = Len(item) \/ item[n + 1] = "="

\* an item as the specification encodes it: split at the first "=" only, key
\* and value escaped on their own, no "=" after an item that has none
EncodedItem(item) ==
    IF KeyLen(item) = Len(item) THEN QueryEscape(item)
    ELSE QueryEscape(SubSeq(item, 1, KeyLen(item))) \o <<"=">>
         \o QueryEscape(SubSeq(item, KeyLen(item) + 2, Len(item)))

\* the first n encoded items of q, joined by "&"
RECURSIVE EncodedUpTo(_, _)
EncodedUpTo(q, n) ==
    IF n = 1 THEN EncodedItem(q[1])
    ELSE EncodedUpTo(q, n - 1) \o <<"&">> \o EncodedItem(q[n])

\* C21: the query string of the URI-Query values is empty when there are none
\* and otherwise "?" followed by the encoded items joined by "&", each item
\* split at its first "=" only, key and value escaped independently, and an
\* item without "=" given as its escaped key with no "=" after it.
C21_QueryString ==
    \A i \in DOMAIN h :
        Built(i) =>
            LET q == h[i].m.query
                head == SlashEnded(backendURL) \o PathString(h[i].m.path)
            IN  h[i].req.URL = head \o (IF q = <<>> THEN <<>>
                                        ELSE <<"?">> \o EncodedUpTo(q, Len(q)))

\* the query of the translator's test
C21_Witness ==
    \E i \in DOMAIN h :
        /\ h[i].calls > 0
        /\ h[i].m.query = <<<<"a", "=", "b">>, <<"c", "=", "d", " ", "e", "&", "=", "f">>>>
        /\ backendURL = <<"h", ":", "/", "/", "b">>
        /\ h[i].sent.URL = <<"h", ":", "/", "/", "b", "/", "t", "?", "a", "=", "b", "&", "c", "=", "d", "+", "e", "%", "2", "6", "%", "3", "D", "f">>

\* the media type and encoding are those of a table entry
InTable(contentType, contentEncoding) ==
    \E id \in {0, 40, 41, 42, 47, 50, 11050} :
        /\ trimCharset(coapContentFormatContentType[id].Type) = trimCharset(contentType)
        /\ coapContentFormatContentType[id].Encoding = contentEncoding

\* C27: a Content-Format ID outside the table sets neither Content-Type nor
\* Content-Encoding on the HTTP request, and a response whose media type
\* (without its parameter) and encoding are no table entry gets no
\* Content-Format option.
C27_UnknownFormats ==
    \A i \in DOMAIN h :
        /\ (Built(i) /\ h[i].m.cf \notin {0, 40, 41, 42, 47, 50, 11050}) =>
               /\ h[i].req.ContentType = <<"">>
               /\ h[i].req.ContentEncoding = ""
        /\ (/\ h[i].pc = "done" /\ h[i].returned /\ ~h[i].httpErr /\ h[i].req.ok
            /\ ~InTable(h[i].httpResp.ContentType, h[i].httpResp.ContentEncoding)) =>
               h[i].ret.cf = NoCF

\* a request with an ID the table lacks, answered with application/json in gzip
C27_Witness ==
    \E i \in DOMAIN h :
        /\ h[i].pc = "done" /\ h[i].returned /\ h[i].calls = 1
        /\ h[i].m.cf = 60 /\ h[i].sent.ContentType = <<"">>
        /\ h[i].httpResp.ContentType = <<"application/json">>
        /\ h[i].httpResp.ContentEncoding = "gzip"
        /\ h[i].ret.cf = NoCF /\ h[i].ret.code = "Content"

\* the request of handler i carries Block1 and Block2 and an HTTP request can
\* be formed from it
BothBlocks(i) ==
    /\ IsConfirmable(h[i].m) /\ IsBlock1(h[i].m) /\ IsBlock2(h[i].m)
    /\ ~Malformed(h[i].m)

\* the offset a Block2 response to m is carved at in a body
CarveFrom(m, body) ==
    IF m.b2.num * BlockSize(m.b2.szx) > Len(body) THEN 0
    ELSE m.b2.num * BlockSize(m.b2.szx)

\* what C24 says of a handler whose request has both options
BothBlocksRule(i) ==
    IF h[i].m.b1.more
    THEN /\ h[i].calls = 0
         /\ h[i].cacheOps <= 2
         /\ Ended(i) => /\ h[i].returned
                         /\ h[i].ret.code = "Continue"
                         /\ h[i].cacheOps = 2
                         /\ UploadKey(i) \in DOMAIN cache =>
                                ReadRequest(cache[UploadKey(i)]).Body = Assembled(i)
    ELSE /\ h[i].calls = 1 => (~h[i].hit /\ h[i].sent.Body = Assembled(i))
         /\ (Ended(i) /\ ~h[i].httpErr) =>
                /\ h[i].returned
                /\ h[i].ret.b1 = Block(h[i].m.b1.num, h[i].m.b1.szx, FALSE)
                /\ h[i].ret.b2.has
                /\ h[i].ret.b2.num = h[i].m.b2.num
                /\ h[i].ret.b2.szx = h[i].m.b2.szx
                /\ h[i].ret.payload =
                       Slice(h[i].httpResp.Body, CarveFrom(h[i].m, h[i].httpResp.Body),
                             CarveFrom(h[i].m, h[i].httpResp.Body) + Len(h[i].ret.payload))

\* C24: a request with Block1 and Block2: with Block1 more = true the proxy
\* only updates the request-assembly entry and answers 2.31 Continue, without
\* a response-session access or a backend call; with more = false the backend
\* call (on a response-session miss) carries the assembled body and the
\* response is the Block2 slice of the HTTP response, with Block1 and Block2.
C24_BothBlocks == \A i \in DOMAIN h : BothBlocks(i) => BothBlocksRule(i)

\* C24, what the code does keep: so it is when a cache is configured.
C24_BothBlocksWithCache ==
    \A i \in DOMAIN h : (BothBlocks(i) /\ ~cacheNil) => BothBlocksRule(i)

\* the goroutine of handler i has not come to its end
Running(i) == h[i].pc \in {"b1get", "b1set", "resget", "hitset", "http", "resset"}

\* C25: in a handler the request is translated first, then the cache is read
\* and written, then the backend is called, then the response is translated
\* and returned: no message is returned to the dispatcher before the backend
\* call of the request has completed.
C25_Order ==
    \A i \in DOMAIN h :
        /\ Running(i) => h[i].req.ok
        /\ h[i].pc \in {"b1get", "b1set", "resget"} => h[i].calls = 0
        /\ (h[i].returned /\ h[i].ret # NilMsg) => ~Running(i)

\* C25, what the code does keep: so it is for confirmable requests.
C25_OrderConfirmable ==
    \A i \in DOMAIN h :
        IsConfirmable(h[i].m) =>
            /\ Running(i) => h[i].req.ok
            /\ h[i].pc \in {"b1get", "b1set", "resget"} => h[i].calls = 0
            /\ (h[i].returned /\ h[i].ret # NilMsg) => ~Running(i)

\* C26: a Block2 request that hits a response-session entry calls no backend,
\* writes the entry back with the bytes it holds, and leaves the content of
\* every other entry as it is; its block is carved from the stored bytes.
C26_HitRefresh ==
    [][\A i \in DOMAIN h :
          (h[i].pc = "hitset" /\ h'[i].pc # "hitset") =>
              LET key == ResKey(h[i].req)
              IN  /\ h'[i].calls = 0
                  /\ key \in DOMAIN cache'
                  /\ cache'[key] = h[i].raw
                  /\ key \in DOMAIN cache => cache'[key] = cache[key]
                  /\ DOMAIN cache' = DOMAIN cache \cup {key}
                  /\ \A k \in DOMAIN cache \ {key} : cache'[k] = cache[k]
                  /\ h'[i].httpResp = ReadResponse(h[i].raw).resp]_vars

\* a hit answered while the cache holds a request-assembly entry as well
C26_Witness ==
    \E i \in DOMAIN h :
        /\ h[i].pc = "done" /\ h[i].hit /\ IsBlock2(h[i].m) /\ ~IsBlock1(h[i].m)
        /\ h[i].calls = 0 /\ h[i].cacheOps = 2
        /\ ResKey(h[i].req) \in DOMAIN cache
        /\ ReadResponse(cache[ResKey(h[i].req)]).resp = h[i].httpResp
        /\ ReqKey(h[i].req) \in DOMAIN cache

\* two calls have each handled a Block1 fragment for the same method and URL
BothUploaded(i, j) ==
    /\ i # j
    /\ IsBlock1(h[i].m) /\ IsBlock1(h[j].m)
    /\ h[i].pc = "done" /\ h[j].pc = "done"
    /\ UploadKey(i) = UploadKey(j)

\* the body of the request-assembly entry of handler i
EntryBody(i) == ReadRequest(cache[UploadKey(i)]).Body

\* C29: when two handlers process Block1 fragments for the same method and
\* URL at the same time, the request-assembly entry holds both payloads, in
\* either order, once both have finished, for every interleaving of their
\* cache Get and Set steps.
C29_NoLostUpdate ==
    \A i, j \in DOMAIN h :
        BothUploaded(i, j) =>
            /\ UploadKey(i) \in DOMAIN cache
            /\ EntryBody(i) \in {h[i].m.payload \o h[j].m.payload,
                                  h[j].m.payload \o h[i].m.payload}

\* C29, what the code does keep: both payloads are there when one handler
\* read the entry after the other had written it.
C29_KeptWhenSerialized ==
    \A i, j \in DOMAIN h :
        (BothUploaded(i, j) /\ h[j].prev # <<>>) =>
            /\ UploadKey(i) \in DOMAIN cache
            /\ EntryBody(i) = h[i].m.payload \o h[j].m.payload

\* two calls have each answered a Block2 request for the same method and URL
\* from a response
BothDownloaded(i, j) ==
    /\ i # j
    /\ IsBlock2(h[i].m) /\ IsBlock2(h[j].m)
    /\ h[i].pc = "done" /\ h[j].pc = "done"
    /\ ~h[i].httpErr /\ ~h[j].httpErr
    /\ ResKey(h[i].req) = ResKey(h[j].req)

\* C30: when two handlers process Block2 requests for the same method and URL
\* at the same time and no response-session entry exists, the backend gets
\* one HTTP request only and both carve from the same stored response, for
\* every interleaving.
C30_OneCallPerSession ==
    \A i, j \in DOMAIN h :
        BothDownloaded(i, j) =>
            /\ h[i].calls + h[j].calls <= 1
            /\ h[i].httpResp = h[j].httpResp

\* C30, what the code does keep: one call only when one handler looked the
\* entry up after the other had stored it.
C30_OneCallWhenSerialized ==
    \A i, j \in DOMAIN h :
        (BothDownloaded(i, j) /\ h[j].hit) =>
            /\ h[i].calls + h[j].calls <= 1
            /\ h[i].httpResp = h[j].httpResp

\* handler i forwards the last fragment of an upload of the upload client
UlForwarded(i) ==
    /\ h[i].session = "upload"
    /\ ~Block1More(h[i].m)
    /\ h[i].calls > 0

\* the bytes of s
BytesOf(s) == {s[k] : k \in 1..Len(s)}

\* C28: the body forwarded to the backend for an upload that begins after an
\* earlier upload to the same method and URL was completed consists only of
\* the payloads of the later upload's fragments.
C28_UploadsIsolated ==
    \A i \in DOMAIN h :
        (UlForwarded(i) /\ ul.count > 0) =>
            BytesOf(h[i].sent.Body) \subseteq UlBytes(ul.count)

\* C28, what the code does keep: the forwarded body holds only payloads of
\* the later upload when the earlier upload's entry has left the cache
\* before the later upload's first fragment came; the first upload to an
\* empty cache holds its own payloads only
C28_IsolatedAfterExpiry ==
    \A i \in DOMAIN h :
        (UlForwarded(i) /\ (ul.count = 0 \/ h[i].prev = <<>> \/ BytesOf(h[i].prev) \subseteq UlBytes(ul.count))) =>
            BytesOf(h[i].sent.Body) \subseteq UlBytes(ul.count)

\* a ServeCOAP call that has been made and has not been released
Called(i) == h[i].pc # "idle"

\* the goroutine of handler i has ended and ServeCOAP has returned
Returned(i) == h[i].pc = "done" /\ h[i].returned

\* the response channel of handler i: at most one message was put on it and
\* the goroutine does not wait on it
ChannelFree(i) == h[i].chan <= 1 /\ h[i].pc # "blocked"

\* translateHTTPResponseToCOAPResponse was called with a nil response only
\* for a Block1 fragment with more = true, and then answered 2.31 Continue
\* from the request alone
NilOnlyForFragment(i) ==
    (h[i].translated /\ h[i].httpResp = NilResponse) =>
        /\ Block1More(h[i].m)
        /\ h[i].ret.code = "Continue"
        /\ h[i].ret.payload = <<>>

\* C31: with a cache configured and every backend call returning a response
\* or an error, every ServeCOAP call eventually returns and its goroutine
\* ends; the goroutine puts at most one message on the response channel and
\* never waits on it, and the response translation gets a nil response only
\* for a Block1 fragment with more = true, which it answers without reading
\* the response.
C31_Termination ==
    /\ \A i \in Handlers : (~cacheNil /\ Called(i)) ~> Returned(i)
    /\ [](\A i \in Handlers : ChannelFree(i) /\ NilOnlyForFragment(i))

\* C31 has acted: a confirmable call for the last fragment of an upload
\* with Block2 has gone through the cache and the backend call, and has
\* returned the translated answer with one message on its channel
C31_Witness ==
    \E i \in Handlers :
        /\ ~cacheNil /\ Returned(i) /\ IsConfirmable(h[i].m) /\ h[i].translated
        /\ IsBlock1(h[i].m) /\ IsBlock2(h[i].m)
        /\ h[i].calls > 0 /\ h[i].chan = 1

\* the bytes the upload client has sent in its uploads so far
OwnBytes == UNION {UlBytes(u) : u \in 0..ul.count}

\* C32: the HTTP body forwarded for one client's Block1 upload contains only
\* payloads of fragments sent by that client; fragments another client sends
\* to the same method and URL while the upload is in progress do not appear
\* in it.
C32_ClientIsolation ==
    \A i \in DOMAIN h :
        UlForwarded(i) => BytesOf(h[i].sent.Body) \subseteq OwnBytes

\* C32, what the code does keep: the forwarded body holds the client's own
\* payloads only when the entry found for the fragment held no payload of
\* the other client
C32_OwnWhenAlone ==
    \A i \in DOMAIN h :
        (UlForwarded(i) /\ OtherByte \notin BytesOf(h[i].prev)) =>
            BytesOf(h[i].sent.Body) \subseteq OwnBytes

\* handler j is answered from the response-session entry that handler i made
\* with the answer of the backend to its request
ServedFrom(j, i) ==
    /\ i # j
    /\ IsBlock2(h[j].m) /\ h[j].hit
    /\ h[j].pc \in {"hitset", "done"}
    /\ h[i].calls > 0 /\ h[i].pc = "done" /\ ~h[i].httpErr

\* C33: the response served to a Block2 request comes from the backend's
\* answer to a request with the same method, URL, payload, Content-Format and
\* URI-Host; a Block2 request whose payload or URI-Host differs from the
\* request that made the response-session entry is not answered from it.
C33_SameRequest ==
    \A i, j \in DOMAIN h :
        ServedFrom(j, i) =>
            /\ h[j].req.Method = h[i].sent.Method
            /\ h[j].req.URL = h[i].sent.URL
            /\ h[j].req.Body = h[i].sent.Body
            /\ h[j].req.ContentType = h[i].sent.ContentType
            /\ h[j].req.Host = h[i].sent.Host

\* C33, what the code does keep: the entry a request is answered from was
\* made for a request with the same method and URL
C33_SameMethodAndURL ==
    \A i, j \in DOMAIN h :
        ServedFrom(j, i) =>
            /\ h[j].req.Method = h[i].sent.Method
            /\ h[j].req.URL = h[i].sent.URL

\* the backend call of handler i for a Block2 request fails in this step
Block2CallFails(i) ==
    /\ h[i].pc = "http" /\ IsBlock2(h[i].m)
    /\ h'[i].httpErr /\ h'[i].calls = h[i].calls + 1

\* C34: when the backend call made on a Block2 cache miss fails, no
\* response-session entry is made or changed: the cache is as before and has
\* no entry for the request, so the next Block2 request for the method and
\* URL misses and calls the backend again.
C34_ErrorLeavesNoEntry ==
    [][\A i \in DOMAIN h :
          Block2CallFails(i) =>
              /\ cache' = cache
              /\ ResKey(h[i].req) \notin DOMAIN cache']_vars

\* C34 has acted: a Block2 request was answered 5.00 after its backend call
\* failed, other entries are in the cache and none for this request
C34_Witness ==
    \E i \in DOMAIN h :
        /\ IsBlock2(h[i].m) /\ h[i].httpErr /\ h[i].calls = 1
        /\ h[i].pc = "done" /\ h[i].ret.code = "InternalServerError"
        /\ cache # EmptyCache
        /\ ResKey(h[i].req) \notin DOMAIN cache

\* the payloads of the current upload that were answered 2.31 Continue
Acknowledged == {ul.acc[k] : k \in 1..(Len(ul.acc) - 1)}

\* C35: the proxy never forwards a partial upload: when the request-assembly
\* entry of an upload in progress has left the cache before the last Block1
\* fragment arrives, the request sent to the backend for the last fragment
\* does not lack the earlier fragments that were answered 2.31 Continue.
C35_NoPartialUpload ==
    \A i \in DOMAIN h :
        UlForwarded(i) => Acknowledged \subseteq BytesOf(h[i].sent.Body)

\* C35, what the code does keep: the forwarded body has the acknowledged
\* fragments when the entry found for the last fragment still held them
C35_WholeWhenKept ==
    \A i \in DOMAIN h :
        (UlForwarded(i) /\ Acknowledged \subseteq BytesOf(h[i].prev)) =>
            Acknowledged \subseteq BytesOf(h[i].sent.Body)

\* the product a * b of two uint32 values fits 32 bits
FitsUint32(a, b) == (a * b) \div 65536 < 65536

\* C36: the offsets the body is sliced with for a Block2 request satisfy
\* 0 <= readFrom <= readTo <= |body| for every body length, every num in
\* 0..2^20-1 and every szx, and num*size does not overflow 32 bits.
C36_SliceBounds ==
    (tout # NoOutput /\ IsBlock2(tin.req)) =>
        LET httpBody == tin.resp.Body
            c == CarveBlock2(httpBody, tin.req.b2.num, tin.req.b2.szx)
        IN  /\ 0 <= c.readFrom
            /\ c.readFrom <= c.readTo
            /\ c.readTo <= Len(httpBody)
            /\ FitsUint32(tin.req.b2.num, BlockSize(tin.req.b2.szx))
            /\ tout.msg.payload = Slice(httpBody, c.readFrom, c.readTo)

\* C36 has acted: the largest block number with the largest size exponent
\* was answered from a body of more than two blocks, from its first byte on
C36_Witness ==
    /\ tout # NoOutput
    /\ tin.req.b2.num = MaxWireNum /\ tin.req.b2.szx = MaxWireSzx
    /\ Len(tin.resp.Body) > 2 * BlockSize(MaxWireSzx)
    /\ tout.msg.payload = tin.resp.Body
    /\ tout.msg.b2 = Block(MaxWireNum, MaxWireSzx, FALSE)

====
